---- MODULE Spec2Model ----
(***************************************************************************)
(* A model of the chess engine of thismarvin/chess (src/src/lib.rs): the   *)
(* position representation, FEN parsing and serialisation, make/unmake,    *)
(* attack generation, the legal move generator and the command driver.     *)
(*                                                                         *)
(* Encoding.  A Coordinate is its index 0..63 (a8 = 0, h1 = 63).  An       *)
(* Option is modelled by a distinguished value of the same shape: None for *)
(* Option<Piece>, NoCoordinate for Option<Coordinate> and for the Err of   *)
(* Coordinate::try_move, "None" for Option<PieceKind>, and a record with a *)
(* `some` flag for Option<CastlingAbility>.  A Bitboard is the set of the  *)
(* Coordinates whose bit is set.  A Vec is a sequence.  Text is a sequence *)
(* of one-character strings; Fen_try_from takes the sections that          *)
(* split_whitespace yields from its text.                                  *)
(***************************************************************************)
EXTENDS Integers, Sequences, FiniteSets, TLC

BOARD_WIDTH == 8
BOARD_HEIGHT == 8

Coordinates == 0 .. (BOARD_WIDTH * BOARD_HEIGHT - 1)
NoCoordinate == 0 - 1

A8 == 0
E8 == 4
H8 == 7
C8 == 2
G8 == 6
A1 == 56
C1 == 58
E1 == 60
G1 == 62
H1 == 63

Colors == {"White", "Black"}
PieceKinds == {"Pawn", "Knight", "Bishop", "Rook", "Queen", "King"}

Piece(color, kind) == [color |-> color, kind |-> kind]
None == [color |-> "None", kind |-> "None"]

opponent(color) == IF color = "White" THEN "Black" ELSE "White"

WHITE_KINGSIDE == "WHITE_KINGSIDE"
WHITE_QUEENSIDE == "WHITE_QUEENSIDE"
BLACK_KINGSIDE == "BLACK_KINGSIDE"
BLACK_QUEENSIDE == "BLACK_QUEENSIDE"
CastlingFlags == {WHITE_KINGSIDE, WHITE_QUEENSIDE, BLACK_KINGSIDE, BLACK_QUEENSIDE}

\* Option<CastlingAbility>: None, or Some(bits) where bits may be empty.
NoAbility == [some |-> FALSE, bits |-> {}]
SomeAbility(bits) == [some |-> TRUE, bits |-> bits]

signum(n) == IF n > 0 THEN 1 ELSE IF n < 0 THEN 0 - 1 ELSE 0
abs(n) == IF n < 0 THEN 0 - n ELSE n

x(coordinate) == coordinate % BOARD_WIDTH
y(coordinate) == coordinate \div BOARD_WIDTH

\* Coordinate::try_move: dy > 0 is toward rank 8, that is toward index 0.
try_move(coordinate, dx, dy) ==
  LET nx == x(coordinate) + dx
      ny == y(coordinate) - dy
  IN  IF nx < 0 \/ nx >= BOARD_WIDTH THEN NoCoordinate
      ELSE IF ny < 0 \/ ny >= BOARD_HEIGHT THEN NoCoordinate
      ELSE ny * BOARD_WIDTH + nx

Lan(start, end, promotion) == [start |-> start, end |-> end, promotion |-> promotion]
NoLan == Lan(NoCoordinate, NoCoordinate, "None")

(***************************************************************************)
(* Board::make_move and Board::unmake_move.                                *)
(***************************************************************************)
NoModifier == "None"

MoveUndoer(lan, previous, modifer) ==
  [lan |-> lan, previous |-> previous, modifer |-> modifer]

\* A rook that steps one square out of its corner.
castle_rook_steps(color, dx) ==
  LET ry == IF color = "White" THEN BOARD_HEIGHT - 1 ELSE 0
  IN  IF dx > 0
      THEN LET index == ry * BOARD_WIDTH + (BOARD_WIDTH - 1) IN <<index, index - 1>>
      ELSE LET index == ry * BOARD_WIDTH IN <<index, index + 1>>

\* The corner the rook leaves and the square it lands on when the king of
\* `color` castles in the direction of dx.
castle_rook_squares(color, dx) ==
  LET ry == IF color = "White" THEN BOARD_HEIGHT - 1 ELSE 0
  IN  IF dx > 0
      THEN LET index == ry * BOARD_WIDTH + (BOARD_WIDTH - 1) IN <<index, index - 2>>
      ELSE LET index == ry * BOARD_WIDTH IN <<index, index + 3>>

Board_make_move(pieces, lan) ==
  LET start == pieces[lan.start]
      previous == pieces[lan.end]
      dx == x(lan.end) - x(lan.start)
      dy == y(lan.end) - y(lan.start)
      relocated == [pieces EXCEPT ![lan.start] = None, ![lan.end] = start]
  IN  IF start = None
      THEN [ok |-> FALSE, error |-> "TargetIsNone", pieces |-> pieces,
            undoer |-> MoveUndoer(lan, previous, NoModifier)]
      ELSE IF start.kind = "Pawn"
      THEN IF lan.promotion # "None"
           THEN [ok |-> TRUE, error |-> "",
                 pieces |-> [pieces EXCEPT ![lan.start] = None,
                                           ![lan.end] = Piece(start.color, lan.promotion)],
                 undoer |-> MoveUndoer(lan, previous, "Promotion")]
           ELSE IF dx # 0 /\ previous = None
           THEN LET coordinate == try_move(lan.end, 0, signum(dy))
                IN  [ok |-> TRUE, error |-> "",
                     pieces |-> [[pieces EXCEPT ![coordinate] = None]
                                   EXCEPT ![lan.start] = None, ![lan.end] = start],
                     undoer |-> MoveUndoer(lan, previous, "EnPassant")]
           ELSE [ok |-> TRUE, error |-> "", pieces |-> relocated,
                 undoer |-> MoveUndoer(lan, previous, NoModifier)]
      ELSE IF start.kind = "King"
      THEN IF abs(dx) = 2
           THEN LET rook == castle_rook_squares(start.color, dx)
                IN  [ok |-> TRUE, error |-> "",
                     pieces |-> [[pieces EXCEPT ![rook[1]] = None,
                                                ![rook[2]] = Piece(start.color, "Rook")]
                                   EXCEPT ![lan.start] = None, ![lan.end] = start],
                     undoer |-> MoveUndoer(lan, previous, "Castle")]
           ELSE [ok |-> TRUE, error |-> "", pieces |-> relocated,
                 undoer |-> MoveUndoer(lan, previous, NoModifier)]
      ELSE IF lan.promotion # "None"
      THEN [ok |-> FALSE, error |-> "InvalidPromotion", pieces |-> pieces,
            undoer |-> MoveUndoer(lan, previous, NoModifier)]
      ELSE [ok |-> TRUE, error |-> "", pieces |-> relocated,
            undoer |-> MoveUndoer(lan, previous, NoModifier)]

Board_unmake_move(pieces, undoer) ==
  LET piece == pieces[undoer.lan.end]
      base == [pieces EXCEPT ![undoer.lan.start] = piece,
                             ![undoer.lan.end] = undoer.previous]
  IN  IF undoer.modifer = "Castle"
      THEN LET dx == x(undoer.lan.end) - x(undoer.lan.start)
               rook == castle_rook_squares(piece.color, dx)
           IN  [base EXCEPT ![rook[1]] = Piece(piece.color, "Rook"), ![rook[2]] = None]
      ELSE IF undoer.modifer = "EnPassant"
      THEN LET dy == y(undoer.lan.end) - y(undoer.lan.start)
               coordinate == try_move(undoer.lan.end, 0, signum(dy))
           IN  [base EXCEPT ![coordinate] = Piece(opponent(piece.color), "Pawn")]
      ELSE IF undoer.modifer = "Promotion"
      THEN [base EXCEPT ![undoer.lan.start] = Piece(piece.color, "Pawn")]
      ELSE base

(***************************************************************************)
(* Attack generation (Board level).                                        *)
(***************************************************************************)
RECURSIVE walk_dangerously_from(_, _, _, _, _, _)
walk_dangerously_from(pieces, start, enemy, dx, dy, i) ==
  IF i >= BOARD_WIDTH THEN {}
  ELSE LET end == try_move(start, i * dx, i * dy)
       IN  IF end = NoCoordinate THEN {}
           ELSE IF pieces[end] = None
           THEN {end} \cup walk_dangerously_from(pieces, start, enemy, dx, dy, i + 1)
           ELSE IF pieces[end] = Piece(enemy, "King")
           THEN {end} \cup walk_dangerously_from(pieces, start, enemy, dx, dy, i + 1)
           ELSE {end}

\* The squares one ray of a sliding piece covers: the walk stops on the first
\* piece it meets, except that the king of the other colour does not block.
walk_dangerously(pieces, start, dx, dy) ==
  walk_dangerously_from(pieces, start, opponent(pieces[start].color), dx, dy, 1)

OnBoard(S) == S \ {NoCoordinate}

KnightOffsets ==
  << <<1, 2>>, <<2, 1>>, <<2, 0 - 1>>, <<1, 0 - 2>>,
     <<0 - 1, 0 - 2>>, <<0 - 2, 0 - 1>>, <<0 - 2, 1>>, <<0 - 1, 2>> >>

KingOffsets ==
  << <<0, 1>>, <<1, 1>>, <<1, 0>>, <<1, 0 - 1>>,
     <<0, 0 - 1>>, <<0 - 1, 0 - 1>>, <<0 - 1, 0>>, <<0 - 1, 1>> >>

BishopDirections == << <<1, 1>>, <<1, 0 - 1>>, <<0 - 1, 0 - 1>>, <<0 - 1, 1>> >>
RookDirections == << <<0, 1>>, <<1, 0>>, <<0, 0 - 1>>, <<0 - 1, 0>> >>
QueenDirections == KingOffsets

generate_pawn_danger_zone(pieces, coordinate) ==
  LET dy == IF pieces[coordinate].color = "White" THEN 1 ELSE 0 - 1
  IN  OnBoard({try_move(coordinate, 0 - 1, dy), try_move(coordinate, 1, dy)})

generate_knight_danger_zone(pieces, coordinate) ==
  OnBoard({try_move(coordinate, KnightOffsets[k][1], KnightOffsets[k][2]) : k \in 1 .. 8})

generate_bishop_danger_zone(pieces, coordinate) ==
  UNION {walk_dangerously(pieces, coordinate, BishopDirections[k][1], BishopDirections[k][2]) :
           k \in 1 .. 4}

generate_rook_danger_zone(pieces, coordinate) ==
  UNION {walk_dangerously(pieces, coordinate, RookDirections[k][1], RookDirections[k][2]) :
           k \in 1 .. 4}

generate_queen_danger_zone(pieces, coordinate) ==
  UNION {walk_dangerously(pieces, coordinate, QueenDirections[k][1], QueenDirections[k][2]) :
           k \in 1 .. 8}

generate_king_danger_zone(pieces, coordinate) ==
  OnBoard({try_move(coordinate, KingOffsets[k][1], KingOffsets[k][2]) : k \in 1 .. 8})

piece_danger_zone(pieces, coordinate) ==
  LET kind == pieces[coordinate].kind
  IN  IF kind = "Pawn" THEN generate_pawn_danger_zone(pieces, coordinate)
      ELSE IF kind = "Knight" THEN generate_knight_danger_zone(pieces, coordinate)
      ELSE IF kind = "Bishop" THEN generate_bishop_danger_zone(pieces, coordinate)
      ELSE IF kind = "Rook" THEN generate_rook_danger_zone(pieces, coordinate)
      ELSE IF kind = "Queen" THEN generate_queen_danger_zone(pieces, coordinate)
      ELSE generate_king_danger_zone(pieces, coordinate)

generate_danger_zone(pieces, color) ==
  UNION {piece_danger_zone(pieces, coordinate) :
           coordinate \in {c \in Coordinates : pieces[c].color = color}}

\* Board::find_king: the first king of `color` in index order, or none.
find_king(pieces, color) ==
  LET kings == {c \in Coordinates : pieces[c] = Piece(color, "King")}
  IN  IF kings = {} THEN NoCoordinate
      ELSE CHOOSE c \in kings : \A d \in kings : c <= d

(***************************************************************************)
(* Pseudo-legal move generation (State level).  A State is a record with   *)
(* the fields of the source's struct.                                      *)
(***************************************************************************)
RECURSIVE walk_from(_, _, _, _, _, _)
walk_from(pieces, start, enemy, dx, dy, i) ==
  IF i >= BOARD_WIDTH THEN <<>>
  ELSE LET end == try_move(start, i * dx, i * dy)
       IN  IF end = NoCoordinate THEN <<>>
           ELSE IF pieces[end] = None
           THEN <<Lan(start, end, "None")>> \o walk_from(pieces, start, enemy, dx, dy, i + 1)
           ELSE IF pieces[end].color = enemy THEN <<Lan(start, end, "None")>>
           ELSE <<>>

walk(state, start, enemy, dx, dy) == walk_from(state.board, start, enemy, dx, dy, 1)

\* Iterator::flatten on a list of lists (halved, to keep the evaluation shallow).
RECURSIVE Flatten(_)
Flatten(lists) ==
  IF lists = <<>> THEN <<>>
  ELSE IF Len(lists) = 1 THEN lists[1]
  ELSE LET half == Len(lists) \div 2
       IN  Flatten(SubSeq(lists, 1, half)) \o Flatten(SubSeq(lists, half + 1, Len(lists)))

PROMOTIONS == <<"Knight", "Bishop", "Rook", "Queen">>

\* A pawn move registered without a promotion on any rank.
register_move_plain(start, end) == <<Lan(start, end, "None")>>

\* The closure register_move of generate_pseudo_legal_pawn_moves.
register_move(start, end) ==
  IF y(end) = 0 \/ y(end) = BOARD_HEIGHT - 1
  THEN [k \in 1 .. 4 |-> Lan(start, end, PROMOTIONS[k])]
  ELSE <<Lan(start, end, "None")>>

generate_pseudo_legal_pawn_moves(state, start) ==
  LET pieces == state.board
      color == pieces[start].color
      dy == IF color = "White" THEN 1 ELSE 0 - 1
      home == IF color = "White" THEN BOARD_HEIGHT - 2 ELSE 1
      fifth == IF color = "White" THEN 3 ELSE BOARD_HEIGHT - 3 - 1
      one == try_move(start, 0, dy)
      two == try_move(start, 0, 2 * dy)
      left == try_move(start, 0 - 1, dy)
      right == try_move(start, 1, dy)
      advance == IF one # NoCoordinate /\ pieces[one] = None
                 THEN register_move(start, one) ELSE <<>>
      double == IF y(start) = home /\ one # NoCoordinate /\ two # NoCoordinate
                   /\ pieces[one] = None /\ pieces[two] = None
                THEN register_move(start, two) ELSE <<>>
      capture(end) == IF end # NoCoordinate /\ pieces[end].color = opponent(color)
                      THEN register_move(start, end) ELSE <<>>
      passant(end) == IF y(start) = fifth /\ state.en_passant_target # NoCoordinate
                         /\ end # NoCoordinate /\ end = state.en_passant_target
                      THEN register_move(start, end) ELSE <<>>
  IN  IF pieces[start].kind # "Pawn" THEN <<>>
      ELSE advance \o double \o capture(left) \o capture(right)
             \o passant(left) \o passant(right)

\* A knight's or king's step to an empty square or onto an enemy piece.
step_move(pieces, start, offset) ==
  LET end == try_move(start, offset[1], offset[2])
  IN  IF end # NoCoordinate /\ pieces[end].color # pieces[start].color
      THEN <<Lan(start, end, "None")>> ELSE <<>>

generate_pseudo_legal_knight_moves(state, start) ==
  IF state.board[start].kind # "Knight" THEN <<>>
  ELSE Flatten([k \in 1 .. 8 |-> step_move(state.board, start, KnightOffsets[k])])

generate_pseudo_legal_bishop_moves(state, start) ==
  IF state.board[start].kind # "Bishop" THEN <<>>
  ELSE Flatten([k \in 1 .. 4 |->
         walk(state, start, opponent(state.board[start].color),
              BishopDirections[k][1], BishopDirections[k][2])])

generate_pseudo_legal_rook_moves(state, start) ==
  IF state.board[start].kind # "Rook" THEN <<>>
  ELSE Flatten([k \in 1 .. 4 |->
         walk(state, start, opponent(state.board[start].color),
              RookDirections[k][1], RookDirections[k][2])])

generate_pseudo_legal_queen_moves(state, start) ==
  IF state.board[start].kind # "Queen" THEN <<>>
  ELSE Flatten([k \in 1 .. 8 |->
         walk(state, start, opponent(state.board[start].color),
              QueenDirections[k][1], QueenDirections[k][2])])

king_side_of(color) == IF color = "White" THEN WHITE_KINGSIDE ELSE BLACK_KINGSIDE
queen_side_of(color) == IF color = "White" THEN WHITE_QUEENSIDE ELSE BLACK_QUEENSIDE

generate_pseudo_legal_king_moves(state, start) ==
  LET pieces == state.board
      color == pieces[start].color
      ability == state.castling_ability
      empty(c) == c # NoCoordinate /\ pieces[c] = None
      king_side_castle ==
        IF ability.some /\ king_side_of(color) \in ability.bits
           /\ empty(try_move(start, 1, 0)) /\ empty(try_move(start, 2, 0))
        THEN <<Lan(start, try_move(start, 2, 0), "None")>> ELSE <<>>
      queen_side_castle ==
        IF ability.some /\ queen_side_of(color) \in ability.bits
           /\ empty(try_move(start, 0 - 1, 0)) /\ empty(try_move(start, 0 - 2, 0))
           /\ empty(try_move(start, 0 - 3, 0))
        THEN <<Lan(start, try_move(start, 0 - 2, 0), "None")>> ELSE <<>>
  IN  IF pieces[start].kind # "King" THEN <<>>
      ELSE Flatten([k \in 1 .. 8 |-> step_move(pieces, start, KingOffsets[k])])
             \o king_side_castle \o queen_side_castle

piece_pseudo_legal_moves(state, start) ==
  LET kind == state.board[start].kind
  IN  IF kind = "Pawn" THEN generate_pseudo_legal_pawn_moves(state, start)
      ELSE IF kind = "Knight" THEN generate_pseudo_legal_knight_moves(state, start)
      ELSE IF kind = "Bishop" THEN generate_pseudo_legal_bishop_moves(state, start)
      ELSE IF kind = "Rook" THEN generate_pseudo_legal_rook_moves(state, start)
      ELSE IF kind = "Queen" THEN generate_pseudo_legal_queen_moves(state, start)
      ELSE generate_pseudo_legal_king_moves(state, start)

\* Vec<Option<Vec<Lan>>>: the list of a square that holds no piece of `color`
\* (None in the source) is the empty list here; every reader flattens it.
generate_pseudo_legal_moves(state, color) ==
  [index \in Coordinates |->
     IF state.board[index].color = color
     THEN piece_pseudo_legal_moves(state, index) ELSE <<>>]

(***************************************************************************)
(* Pins and attackers.                                                     *)
(***************************************************************************)
NoDirection == [some |-> FALSE, dx |-> 0, dy |-> 0]
Direction(dx, dy) == [some |-> TRUE, dx |-> dx, dy |-> dy]

\* The step from `coordinate` toward `target` along a diagonal.
diagonal_direction(coordinate, target) ==
  Direction(0 - signum(x(coordinate) - x(target)), signum(y(coordinate) - y(target)))

\* The step from `coordinate` toward `target` along a file or a rank.
straight_direction(coordinate, target) ==
  Direction(IF y(coordinate) # y(target) THEN 0
            ELSE 0 - signum(x(coordinate) - x(target)),
            IF x(coordinate) # x(target) THEN 0
            ELSE signum(y(coordinate) - y(target)))

\* The closure `direction` of find_pins.
pin_direction(kind, coordinate, target) ==
  LET difference_x == x(target) - x(coordinate)
      difference_y == y(target) - y(coordinate)
  IN  IF kind = "Bishop"
      THEN IF x(coordinate) = x(target) \/ y(coordinate) = y(target) THEN NoDirection
           ELSE IF abs(difference_x) # abs(difference_y) THEN NoDirection
           ELSE diagonal_direction(coordinate, target)
      ELSE IF kind = "Rook"
      THEN IF x(coordinate) # x(target) /\ y(coordinate) # y(target) THEN NoDirection
           ELSE straight_direction(coordinate, target)
      ELSE IF kind = "Queen"
      THEN IF x(coordinate) # x(target) /\ y(coordinate) # y(target)
           THEN IF abs(difference_x) # abs(difference_y) THEN NoDirection
                ELSE diagonal_direction(coordinate, target)
           ELSE straight_direction(coordinate, target)
      ELSE NoDirection

\* The while loop of find_pins: the piece pinned along one ray, or none.
RECURSIVE pin_walk(_, _, _, _, _, _, _)
pin_walk(pieces, color, target, dx, dy, coordinate, potential_pin) ==
  IF coordinate = NoCoordinate THEN NoCoordinate
  ELSE LET temp == try_move(coordinate, dx, dy)
       IN  IF pieces[coordinate].color = color
           THEN IF target = coordinate THEN potential_pin
                ELSE IF potential_pin = NoCoordinate
                THEN pin_walk(pieces, color, target, dx, dy, temp, coordinate)
                ELSE NoCoordinate
           ELSE IF pieces[coordinate].color = opponent(color) THEN NoCoordinate
           ELSE IF \/ (dx > 0 /\ x(coordinate) > x(target))
                   \/ (dx < 0 /\ x(coordinate) < x(target))
                   \/ (dy > 0 /\ y(coordinate) < y(target))
                   \/ (dy < 0 /\ y(coordinate) > y(target))
           THEN NoCoordinate
           ELSE pin_walk(pieces, color, target, dx, dy, temp, potential_pin)

find_pins(state, target) ==
  LET pieces == state.board
      color == pieces[target].color
      along(direction, coordinate) ==
        IF ~direction.some THEN NoCoordinate
        ELSE pin_walk(pieces, color, target, direction.dx, direction.dy,
                      try_move(coordinate, direction.dx, direction.dy), NoCoordinate)
      pinned_by(coordinate) ==
        along(pin_direction(pieces[coordinate].kind, coordinate, target), coordinate)
  IN  OnBoard({pinned_by(coordinate) :
                 coordinate \in {c \in Coordinates : pieces[c].color = opponent(color)}})

\* The closure `move_list` of find_attackers; the empty list stands for None.
attacker_move_list(state, current, target) ==
  LET kind == state.board[current].kind
      color == state.board[current].color
      difference_x == x(target) - x(current)
      difference_y == y(target) - y(current)
  IN  IF kind = "Pawn"
      THEN LET dy == IF color = "White" THEN 1 ELSE 0 - 1
               coordinate == try_move(current, 0, dy)
           IN  IF x(current) = x(target) THEN <<>>
               ELSE IF abs(difference_x) > 1 THEN <<>>
               ELSE IF coordinate # NoCoordinate /\ y(coordinate) # y(target) THEN <<>>
               ELSE generate_pseudo_legal_pawn_moves(state, current)
      ELSE IF kind = "Knight" THEN generate_pseudo_legal_knight_moves(state, current)
      ELSE IF kind = "Bishop"
      THEN IF abs(difference_x) # abs(difference_y) THEN <<>>
           ELSE generate_pseudo_legal_bishop_moves(state, current)
      ELSE IF kind = "Rook"
      THEN IF x(current) # x(target) /\ y(current) # y(target) THEN <<>>
           ELSE generate_pseudo_legal_rook_moves(state, current)
      ELSE IF kind = "Queen"
      THEN IF abs(difference_x) = abs(difference_y)
              \/ x(current) = x(target) \/ y(current) = y(target)
           THEN generate_pseudo_legal_queen_moves(state, current)
           ELSE <<>>
      ELSE generate_pseudo_legal_king_moves(state, current)

\* The closure `direction` of the second loop of find_attackers.
attacker_direction(kind, coordinate, target) ==
  IF kind = "Bishop" THEN diagonal_direction(coordinate, target)
  ELSE IF kind = "Rook" THEN straight_direction(coordinate, target)
  ELSE IF kind = "Queen"
  THEN IF x(coordinate) # x(target) /\ y(coordinate) # y(target)
       THEN diagonal_direction(coordinate, target)
       ELSE straight_direction(coordinate, target)
  ELSE NoDirection

\* The empty squares from an attacker up to the target.
RECURSIVE sight_walk(_, _, _, _, _)
sight_walk(pieces, target, dx, dy, coordinate) ==
  IF coordinate = NoCoordinate THEN {}
  ELSE (IF pieces[coordinate] = None THEN {coordinate} ELSE {})
         \cup (IF coordinate = target THEN {}
               ELSE sight_walk(pieces, target, dx, dy, try_move(coordinate, dx, dy)))

\* find_attackers: the pair (coordinates, line_of_sight).
find_attackers(state, target) ==
  LET pieces == state.board
      enemy == opponent(pieces[target].color)
      reaches(move_list) == \E i \in 1 .. Len(move_list) : move_list[i].end = target
      attacks(current) == reaches(attacker_move_list(state, current, target))
      along(direction, coordinate) ==
        IF ~direction.some THEN {}
        ELSE sight_walk(pieces, target, direction.dx, direction.dy,
                        try_move(coordinate, direction.dx, direction.dy))
      sight(coordinate) ==
        along(attacker_direction(pieces[coordinate].kind, coordinate, target), coordinate)
      attacked(coordinates) ==
        <<coordinates, UNION {sight(coordinate) : coordinate \in coordinates}>>
  IN  attacked({current \in Coordinates : pieces[current].color = enemy /\ attacks(current)})

(***************************************************************************)
(* Restricting the moves of a pinned piece.                                *)
(***************************************************************************)
\* The squares from the king outward through the pinned piece.
RECURSIVE kings_diagonal(_, _, _)
kings_diagonal(target, dx, dy) ==
  IF target = NoCoordinate THEN {}
  ELSE {target} \cup kings_diagonal(try_move(target, dx, dy), dx, dy)

\* The retain loops shared by the rook and the queen: moves that leave the
\* file or the rank the piece shares with the king are removed.
retain_straight(move_list, kings_coordinate, coordinate) ==
  LET keep(lan) ==
        ~(\/ (x(coordinate) = x(kings_coordinate) /\ x(lan.end) # x(kings_coordinate))
          \/ (y(coordinate) = y(kings_coordinate) /\ y(lan.end) # y(kings_coordinate)))
  IN  SelectSeq(move_list, keep)

retain_diagonal(move_list, kings_coordinate, coordinate) ==
  LET dx == signum(x(coordinate) - x(kings_coordinate))
      dy == 0 - signum(y(coordinate) - y(kings_coordinate))
      bitboard == kings_diagonal(kings_coordinate, dx, dy)
      keep(lan) == lan.end \in bitboard
  IN  SelectSeq(move_list, keep)

sanitize_pinned_pawn(state, move_list, kings_coordinate, coordinate) ==
  LET pieces == state.board
      color == pieces[coordinate].color
      behind == IF color = "White" THEN y(coordinate) > y(kings_coordinate)
                ELSE y(coordinate) < y(kings_coordinate)
      dx == signum(x(coordinate) - x(kings_coordinate))
      dy == IF color = "White" THEN 1 ELSE 0 - 1
      target == try_move(coordinate, dx, dy)
      captures(lan) == lan.end = target
      along_file(lan) == x(lan.end) = x(coordinate)
  IN  IF x(coordinate) # x(kings_coordinate) /\ y(coordinate) # y(kings_coordinate)
      THEN IF behind THEN <<>>
           ELSE IF target = NoCoordinate THEN move_list
           ELSE IF pieces[target].color = opponent(color)
           THEN SelectSeq(move_list, captures)
           ELSE <<>>
      ELSE IF y(coordinate) = y(kings_coordinate) THEN <<>>
      ELSE SelectSeq(move_list, along_file)

sanitize_pinned_bishop(state, move_list, kings_coordinate, coordinate) ==
  IF x(coordinate) = x(kings_coordinate) \/ y(coordinate) = y(kings_coordinate)
  THEN <<>>
  ELSE retain_diagonal(move_list, kings_coordinate, coordinate)

sanitize_pinned_rook(state, move_list, kings_coordinate, coordinate) ==
  IF x(coordinate) # x(kings_coordinate) /\ y(coordinate) # y(kings_coordinate)
  THEN <<>>
  ELSE retain_straight(move_list, kings_coordinate, coordinate)

sanitize_pinned_queen(state, move_list, kings_coordinate, coordinate) ==
  IF x(coordinate) = x(kings_coordinate) \/ y(coordinate) = y(kings_coordinate)
  THEN retain_straight(move_list, kings_coordinate, coordinate)
  ELSE retain_diagonal(move_list, kings_coordinate, coordinate)

(***************************************************************************)
(* State::analyze.                                                         *)
(***************************************************************************)
\* A king's branch that only keeps the king off attacked squares.
sanitize_king_landing(state, color, move_list, coordinate, danger_zone) ==
  LET keep(lan) == lan.end \notin danger_zone
  IN  SelectSeq(move_list, keep)

\* The king's branch of analyze: which of the king's moves survive.
sanitize_king(state, color, move_list, coordinate, danger_zone) ==
  LET ability == state.castling_ability
      is_castle(lan) ==
        /\ lan.promotion = "None"
        /\ \/ (lan.start = E1 /\ (lan.end = G1 \/ lan.end = C1))
           \/ (lan.start = E8 /\ (lan.end = G8 \/ lan.end = C8))
      king_side_lan == IF color = "White" THEN Lan(E1, G1, "None") ELSE Lan(E8, G8, "None")
      queen_side_lan == IF color = "White" THEN Lan(E1, C1, "None") ELSE Lan(E8, C8, "None")
      through(lan, flag, castle_lan, dx) ==
        /\ flag \in ability.bits
        /\ lan = castle_lan
        /\ try_move(coordinate, dx, 0) # NoCoordinate
        /\ try_move(coordinate, 2 * dx, 0) # NoCoordinate
        /\ \/ try_move(coordinate, dx, 0) \in danger_zone
           \/ try_move(coordinate, 2 * dx, 0) \in danger_zone
      keep(lan) ==
        IF is_castle(lan) /\ coordinate \in danger_zone THEN FALSE
        ELSE IF is_castle(lan) /\ ability.some
        THEN ~(\/ through(lan, king_side_of(color), king_side_lan, 1)
               \/ through(lan, queen_side_of(color), queen_side_lan, 0 - 1))
        ELSE lan.end \notin danger_zone
  IN  SelectSeq(move_list, keep)

\* The last branch of analyze, for a piece that is neither pinned nor the
\* king while the king is attacked by exactly one piece or by none listed.
sanitize_defender(state, color, kind, move_list, attackers) ==
  LET target == state.en_passant_target
      dy == IF color = "White" THEN 0 - 1 ELSE 1
      coordinate == try_move(target, 0, dy)
      captures_attacker(lan) ==
        /\ target # NoCoordinate
        /\ kind = "Pawn" /\ lan.end = target
        /\ coordinate # NoCoordinate
        /\ coordinate \in attackers[1]
        /\ state.board[coordinate] = Piece(opponent(color), "Pawn")
      keep(lan) ==
        \/ lan.end \in attackers[1]
        \/ lan.end \in attackers[2]
        \/ captures_attacker(lan)
  IN  SelectSeq(move_list, keep)

Analysis(moves, danger_zone, king_location, king_safety) ==
  [moves |-> moves, danger_zone |-> danger_zone,
   king_location |-> king_location, king_safety |-> king_safety]

\* What stands for the outcome of analyze when its expect on find_king fails
\* and the program aborts: nothing is listed.
NoAnalysis == Analysis([coordinate \in Coordinates |-> <<>>], {}, NoCoordinate, "Panic")

\* The loop of analyze over the squares of `color`, given what analyze
\* computed before it: the sanitized move lists.
sanitize(state, color, kings_coordinate, pseudo, danger_zone, pins, attackers) ==
  [coordinate \in Coordinates |->
     IF state.board[coordinate].color # color THEN <<>>
     ELSE IF coordinate \in pins
     THEN IF kings_coordinate \in danger_zone THEN <<>>
          ELSE IF state.board[coordinate].kind = "Pawn"
          THEN sanitize_pinned_pawn(state, pseudo[coordinate], kings_coordinate, coordinate)
          ELSE IF state.board[coordinate].kind = "Knight" THEN <<>>
          ELSE IF state.board[coordinate].kind = "Bishop"
          THEN sanitize_pinned_bishop(state, pseudo[coordinate], kings_coordinate, coordinate)
          ELSE IF state.board[coordinate].kind = "Rook"
          THEN sanitize_pinned_rook(state, pseudo[coordinate], kings_coordinate, coordinate)
          ELSE sanitize_pinned_queen(state, pseudo[coordinate], kings_coordinate, coordinate)
     ELSE IF state.board[coordinate].kind = "King"
     THEN sanitize_king(state, color, pseudo[coordinate], coordinate, danger_zone)
     ELSE IF kings_coordinate \notin danger_zone THEN pseudo[coordinate]
     ELSE IF Cardinality(attackers[1]) >= 2 THEN <<>>
     ELSE sanitize_defender(state, color, state.board[coordinate].kind,
                            pseudo[coordinate], attackers)]

\* What the same loop leaves in can_move: one iteration sets it when the
\* piece is not pinned and either has a listed move or needs none looked at.
can_move(state, color, in_danger, moves, pins, attackers) ==
  \E coordinate \in Coordinates :
    /\ state.board[coordinate].color = color
    /\ IF coordinate \in pins THEN FALSE
       ELSE IF state.board[coordinate].kind = "King" THEN moves[coordinate] # <<>>
       ELSE IF ~in_danger THEN TRUE
       ELSE IF Cardinality(attackers[1]) >= 2 THEN FALSE
       ELSE moves[coordinate] # <<>>

\* The classification at the end of analyze.
KingSafety(in_danger, movable) ==
  IF in_danger
  THEN (IF movable THEN "Check" ELSE "Checkmate")
  ELSE IF ~movable THEN "Stalemate" ELSE "Safe"

analyze_from(state, color, kings_coordinate, danger_zone, pins, attackers, moves) ==
  IF kings_coordinate = NoCoordinate THEN NoAnalysis
  ELSE Analysis(moves, danger_zone, kings_coordinate,
                KingSafety(kings_coordinate \in danger_zone,
                           can_move(state, color, kings_coordinate \in danger_zone,
                                    moves, pins, attackers)))

analyze_around(state, color, kings_coordinate, danger_zone, pins, attackers) ==
  analyze_from(state, color, kings_coordinate, danger_zone, pins, attackers,
               sanitize(state, color, kings_coordinate,
                        generate_pseudo_legal_moves(state, color),
                        danger_zone, pins, attackers))

analyze_king(state, color, kings_coordinate) ==
  analyze_around(state, color, kings_coordinate,
                 generate_danger_zone(state.board, opponent(color)),
                 find_pins(state, kings_coordinate),
                 find_attackers(state, kings_coordinate))

analyze(state, color) == analyze_king(state, color, find_king(state.board, color))

\* Every listed move, in board order (what the callers of analyze iterate).
listed_moves(analysis) == Flatten([i \in 1 .. 64 |-> analysis.moves[i - 1]])

\* The fold that counts the listed moves.
TotalMovesOf(analysis) == Len(listed_moves(analysis))

(***************************************************************************)
(* State, State::make_move and State::unmake_move.                         *)
(***************************************************************************)
State(board, side_to_move, castling_ability, en_passant_target, half_moves, full_moves) ==
  [board |-> board, side_to_move |-> side_to_move,
   castling_ability |-> castling_ability, en_passant_target |-> en_passant_target,
   half_moves |-> half_moves, full_moves |-> full_moves]

StateUndoer(move_undoer, castling_ability, en_passant_target, half_moves) ==
  [move_undoer |-> move_undoer, castling_ability |-> castling_ability,
   en_passant_target |-> en_passant_target, half_moves |-> half_moves]

\* The closure significant_rook_index of State::make_move.
significant_rook_index(castling_ability) ==
  IF castling_ability = WHITE_KINGSIDE THEN (BOARD_HEIGHT - 1) * BOARD_WIDTH + (BOARD_WIDTH - 1)
  ELSE IF castling_ability = WHITE_QUEENSIDE THEN (BOARD_HEIGHT - 1) * BOARD_WIDTH
  ELSE IF castling_ability = BLACK_KINGSIDE THEN BOARD_WIDTH - 1
  ELSE 0

\* A State::make_move that never clears a castling right.
without_clearing(ability, flags) == ability

\* ability & !flags and ability ^ flag (when the flag is set), on Some only.
without(ability, flags) ==
  IF ability.some THEN SomeAbility(ability.bits \ flags) ELSE ability

\* The walk from the opponent's king along the rank of the pushed pawn.
\* A walk that never finds a rook or a queen.
rank_walk_blind(rank, current_side, kings_x, dir_x) == FALSE

\* Lines 1926-1945: the walk from the king along the rank; TRUE when the
\* first piece it meets is a rook or a queen of the side that moved.
RECURSIVE rank_walk(_, _, _, _)
rank_walk(rank, current_side, kings_x, dir_x) ==
  IF ~(kings_x > 0 - 1 /\ kings_x < BOARD_WIDTH) THEN FALSE
  ELSE IF rank[kings_x].color = current_side
  THEN rank[kings_x].kind \in {"Rook", "Queen"}
  ELSE IF rank[kings_x].color = opponent(current_side) THEN FALSE
  ELSE rank_walk(rank, current_side, kings_x + dir_x, dir_x)

\* A State::make_move that sets the en passant target after every double
\* push of a pawn, whether or not a pawn can capture it.
target_after_every_push(pieces, current_side, piece, lan) ==
  IF abs(y(lan.end) - y(lan.start)) = 2 /\ piece.kind = "Pawn"
  THEN try_move(lan.start, 0, 0 - signum(y(lan.end) - y(lan.start)))
  ELSE NoCoordinate

\* Lines 1843-1957: the en passant target a move leaves behind.
next_en_passant_target(pieces, current_side, piece, lan) ==
  LET enemy == opponent(current_side)
      dy == y(lan.end) - y(lan.start)
      potential_en_passant_target == try_move(lan.start, 0, 0 - signum(dy))
      left == try_move(lan.end, 0 - 1, 0)
      right == try_move(lan.end, 1, 0)
      is_pawn(coordinate) ==
        coordinate # NoCoordinate /\ pieces[coordinate] = Piece(enemy, "Pawn")
      pawns == (IF is_pawn(left) THEN 1 ELSE 0) + (IF is_pawn(right) THEN 1 ELSE 0)
      ry == IF current_side = "White" THEN 4 ELSE 3
      kings == {i \in 0 .. BOARD_WIDTH - 1 :
                  pieces[ry * BOARD_WIDTH + i] = Piece(enemy, "King")}
      \* the loop keeps the last king it meets
      kings_x == CHOOSE i \in kings : \A j \in kings : j <= i
      px == x(lan.end)
      rank == [i \in 0 .. BOARD_WIDTH - 1 |->
                 IF /\ (i = px + 1 \/ i = px - 1)
                    /\ pieces[ry * BOARD_WIDTH + i] = Piece(enemy, "Pawn")
                 THEN None ELSE pieces[ry * BOARD_WIDTH + i]]
      dir_x == IF px > kings_x THEN 1 ELSE 0 - 1
      danger == rank_walk(rank, current_side, kings_x + dir_x, dir_x)
  IN  IF ~(abs(dy) = 2 /\ piece.kind = "Pawn") THEN NoCoordinate
      ELSE IF pawns = 0 THEN NoCoordinate
      ELSE IF pawns = 1 /\ kings # {} /\ danger THEN NoCoordinate
      ELSE potential_en_passant_target

\* State::make_move.  The fields are updated before Board::make_move is
\* called, so an error of Board::make_move leaves them updated.
\* A clock that no move resets.
half_moves_counting(half_moves, capture, piece) == half_moves + 1

\* Lines 1959-1963: the half-move clock after a move.
half_moves_after(half_moves, capture, piece) ==
  IF capture \/ piece.kind = "Pawn" THEN 0 ELSE half_moves + 1

State_make_move(state, lan) ==
  LET current_side == state.side_to_move
      enemy == opponent(current_side)
      piece == state.board[lan.start]
      target == state.board[lan.end]
      capture == target # None
      after_king(ability) ==
        IF piece.kind = "King"
        THEN without(ability, {king_side_of(piece.color), queen_side_of(piece.color)})
        ELSE ability
      after_rook(ability) ==
        IF piece.kind # "Rook" THEN ability
        ELSE IF lan.start = significant_rook_index(king_side_of(current_side))
        THEN without(ability, {king_side_of(current_side)})
        ELSE IF lan.start = significant_rook_index(queen_side_of(current_side))
        THEN without(ability, {queen_side_of(current_side)})
        ELSE ability
      after_capture(ability) ==
        IF target.kind # "Rook" THEN ability
        ELSE IF lan.end = significant_rook_index(king_side_of(enemy))
        THEN without(ability, {king_side_of(enemy)})
        ELSE IF lan.end = significant_rook_index(queen_side_of(enemy))
        THEN without(ability, {queen_side_of(enemy)})
        ELSE ability
      half_moves == half_moves_after(state.half_moves, capture, piece)
      full_moves == IF current_side = "Black" THEN state.full_moves + 1 ELSE state.full_moves
      made(moved) ==
        [ok |-> moved.ok, error |-> moved.error,
         state |-> State(moved.pieces, enemy,
                         after_capture(after_rook(after_king(state.castling_ability))),
                         next_en_passant_target(state.board, current_side, piece, lan),
                         half_moves, full_moves),
         undoer |-> StateUndoer(moved.undoer, state.castling_ability,
                                state.en_passant_target, state.half_moves)]
  IN  IF piece = None
      THEN [ok |-> FALSE, error |-> "TargetIsNone", state |-> state,
            undoer |-> StateUndoer(MoveUndoer(lan, target, NoModifier), state.castling_ability,
                                   state.en_passant_target, state.half_moves)]
      ELSE made(Board_make_move(state.board, lan))

State_unmake_move(state, undoer) ==
  LET side_to_move == opponent(state.side_to_move)
  IN  State(Board_unmake_move(state.board, undoer.move_undoer), side_to_move,
            undoer.castling_ability, undoer.en_passant_target, undoer.half_moves,
            IF side_to_move = "Black" THEN state.full_moves - 1 ELSE state.full_moves)

(***************************************************************************)
(* Text.  A character is a one-character string and a &str is a sequence   *)
(* of characters.                                                          *)
(***************************************************************************)
LOOKUP == <<"0", "1", "2", "3", "4", "5", "6", "7", "8", "9">>
LOWER == <<"a", "b", "c", "d", "e", "f", "g", "h", "i", "j", "k", "l", "m",
           "n", "o", "p", "q", "r", "s", "t", "u", "v", "w", "x", "y", "z">>
UPPER == <<"A", "B", "C", "D", "E", "F", "G", "H", "I", "J", "K", "L", "M",
           "N", "O", "P", "Q", "R", "S", "T", "U", "V", "W", "X", "Y", "Z">>

Range(seq) == {seq[i] : i \in 1 .. Len(seq)}
IndexOf(seq, e) == CHOOSE i \in 1 .. Len(seq) : seq[i] = e

\* char::to_digit(10): the digit's value, or -1 for None.
to_digit(character) ==
  IF character \in Range(LOOKUP) THEN IndexOf(LOOKUP, character) - 1 ELSE 0 - 1

to_lowercase(character) ==
  IF character \in Range(UPPER) THEN LOWER[IndexOf(UPPER, character)] ELSE character

is_ascii_alphabetic(character) == character \in Range(UPPER) \cup Range(LOWER)

\* str::split(separator): the pieces between the separators.
RECURSIVE split(_, _)
split(value, separator) ==
  IF \A i \in 1 .. Len(value) : value[i] # separator THEN <<value>>
  ELSE LET i == CHOOSE k \in 1 .. Len(value) :
                  value[k] = separator /\ \A j \in 1 .. k - 1 : value[j] # separator
       IN  <<SubSeq(value, 1, i - 1)>> \o split(SubSeq(value, i + 1, Len(value)), separator)

\* str::parse::<usize>(): an optional plus sign followed by digits; -1 for Err.
RECURSIVE digits_value(_, _)
digits_value(value, accumulator) ==
  IF value = <<>> THEN accumulator
  ELSE digits_value(Tail(value), accumulator * 10 + to_digit(Head(value)))

parse_usize(value) ==
  LET digits == IF value # <<>> /\ Head(value) = "+" THEN Tail(value) ELSE value
  IN  IF digits = <<>> \/ \E i \in 1 .. Len(digits) : to_digit(digits[i]) < 0
      THEN 0 - 1
      ELSE digits_value(digits, 0)

\* usize's Display.
RECURSIVE usize_to_string(_)
usize_to_string(n) ==
  IF n < 10 THEN <<LOOKUP[n + 1]>>
  ELSE usize_to_string(n \div 10) \o <<LOOKUP[(n % 10) + 1]>>

PieceLetters == <<"p", "n", "b", "r", "q", "k">>
PieceLetterKinds == <<"Pawn", "Knight", "Bishop", "Rook", "Queen", "King">>

\* PieceKind::try_from(char); "None" for Err.
PieceKind_try_from(character) ==
  LET value == to_lowercase(character)
  IN  IF value \in Range(PieceLetters)
      THEN PieceLetterKinds[IndexOf(PieceLetters, value)] ELSE "None"

\* Piece::try_from(char); None for Err.
Piece_try_from(character) ==
  IF character \in Range(PieceLetters)
  THEN Piece("Black", PieceLetterKinds[IndexOf(PieceLetters, character)])
  ELSE IF character \in Range(UPPER) /\ to_lowercase(character) \in Range(PieceLetters)
  THEN Piece("White", PieceLetterKinds[IndexOf(PieceLetters, to_lowercase(character))])
  ELSE None

\* char::from(Piece).
Piece_to_char(piece) ==
  LET letter == PieceLetters[IndexOf(PieceLetterKinds, piece.kind)]
  IN  IF piece.color = "White" THEN UPPER[IndexOf(LOWER, letter)] ELSE letter

\* Color::try_from(&str); "None" for Err.
Color_try_from(value) ==
  IF Len(value) # 1 THEN "None"
  ELSE IF value[1] = "w" THEN "White"
  ELSE IF value[1] = "b" THEN "Black"
  ELSE "None"

Color_to_string(color) == IF color = "White" THEN <<"w">> ELSE <<"b">>

CastlingLetters == <<"K", "Q", "k", "q">>
CastlingLetterFlags == <<WHITE_KINGSIDE, WHITE_QUEENSIDE, BLACK_KINGSIDE, BLACK_QUEENSIDE>>

\* CastlingAbility::try_from(&str); NoAbility for Err.
CastlingAbility_try_from(value) ==
  IF Len(value) >= 5 THEN NoAbility
  ELSE IF \E i \in 1 .. Len(value) : value[i] \notin Range(CastlingLetters) THEN NoAbility
  ELSE IF value = <<>> THEN NoAbility
  ELSE SomeAbility({CastlingLetterFlags[IndexOf(CastlingLetters, value[i])] :
                      i \in 1 .. Len(value)})

\* String::from(CastlingAbility).
CastlingAbility_to_string(bits) ==
  LET letters == SelectSeq(CastlingLetters,
                   LAMBDA c : CastlingLetterFlags[IndexOf(CastlingLetters, c)] \in bits)
  IN  IF letters = <<>> THEN <<"-">> ELSE letters

\* Coordinate::try_from(&str); NoCoordinate for Err.
Coordinate_try_from(value) ==
  IF Len(value) # 2 THEN NoCoordinate
  ELSE LET file == to_lowercase(value[1])
           rank == to_lowercase(value[2])
       IN  IF ~is_ascii_alphabetic(file) \/ to_digit(rank) < 0 THEN NoCoordinate
           ELSE IF IndexOf(LOWER, file) - 1 >= BOARD_WIDTH THEN NoCoordinate
           ELSE IF to_digit(rank) = 0 \/ to_digit(rank) > BOARD_HEIGHT THEN NoCoordinate
           ELSE (BOARD_HEIGHT - to_digit(rank)) * BOARD_WIDTH + (IndexOf(LOWER, file) - 1)

\* <&str>::from(Coordinate).
Coordinate_to_string(coordinate) ==
  <<LOWER[x(coordinate) + 1], LOOKUP[(BOARD_HEIGHT - y(coordinate)) + 1]>>

(***************************************************************************)
(* Placement, Board::from(Placement), Fen.                                 *)
(***************************************************************************)
\* The `reach` of one rank of a placement: digits count their value, every
\* other character counts one.
RECURSIVE reach(_)
reach(rank) ==
  IF rank = <<>> THEN 0
  ELSE (IF to_digit(Head(rank)) >= 0 THEN to_digit(Head(rank)) ELSE 1) + reach(Tail(rank))

\* Placement::try_from(&str): TRUE when the text is accepted; the Placement
\* then holds the text itself.
Placement_try_from(value) ==
  LET ranks == split(value, "/")
  IN  /\ Len(ranks) = BOARD_HEIGHT
      /\ \A r \in 1 .. Len(ranks) :
           /\ \A i \in 1 .. Len(ranks[r]) :
                to_digit(ranks[r][i]) >= 0 \/ Piece_try_from(ranks[r][i]) # None
           /\ reach(ranks[r]) = BOARD_WIDTH

\* Board::from(Placement): the piece each square receives.
Board_from(placement) ==
  LET ranks == split(placement, "/")
      square(cy, cx) ==
        LET rank == ranks[cy + 1]
            at == {i \in 1 .. Len(rank) :
                     to_digit(rank[i]) < 0 /\ reach(SubSeq(rank, 1, i - 1)) = cx}
        IN  IF at = {} THEN None
            ELSE Piece_try_from(rank[CHOOSE i \in at : \A j \in at : j <= i])
  IN  [coordinate \in Coordinates |->
         IF y(coordinate) + 1 > Len(ranks) THEN None
         ELSE square(y(coordinate), x(coordinate))]

\* Placement::from(Board), one rank at a time.
Placement_rank(pieces, cy) ==
  LET RECURSIVE emit(_, _)
      emit(cx, empty) ==
        IF cx = BOARD_WIDTH
        THEN (IF empty > 0 THEN <<LOOKUP[empty + 1]>> ELSE <<>>)
        ELSE LET piece == pieces[cy * BOARD_WIDTH + cx]
             IN  IF piece = None THEN emit(cx + 1, empty + 1)
                 ELSE (IF empty # 0 THEN <<LOOKUP[empty + 1]>> ELSE <<>>)
                        \o <<Piece_to_char(piece)>> \o emit(cx + 1, 0)
  IN  emit(0, 0)

Placement_from(pieces) ==
  Flatten([r \in 1 .. BOARD_HEIGHT |->
             Placement_rank(pieces, r - 1) \o (IF r # BOARD_HEIGHT THEN <<"/">> ELSE <<>>)])

Fen(placement, side_to_move, castling_ability, en_passant_target, half_moves, full_moves) ==
  [placement |-> placement, side_to_move |-> side_to_move,
   castling_ability |-> castling_ability, en_passant_target |-> en_passant_target,
   half_moves |-> half_moves, full_moves |-> full_moves]

NoFen == Fen(<<>>, "None", NoAbility, NoCoordinate, 0, 0)

Count(value, character) == Cardinality({i \in 1 .. Len(value) : value[i] = character})

\* The check "Make sure the castling ability adds up" of Fen::try_from.
castling_adds_up(board, bits) ==
  /\ bits \cap {WHITE_KINGSIDE, WHITE_QUEENSIDE} # {} => board[E1] = Piece("White", "King")
  /\ WHITE_KINGSIDE \in bits => board[H1] = Piece("White", "Rook")
  /\ WHITE_QUEENSIDE \in bits => board[A1] = Piece("White", "Rook")
  /\ bits \cap {BLACK_KINGSIDE, BLACK_QUEENSIDE} # {} => board[E8] = Piece("Black", "King")
  /\ BLACK_KINGSIDE \in bits => board[H8] = Piece("Black", "Rook")
  /\ BLACK_QUEENSIDE \in bits => board[A8] = Piece("Black", "Rook")

\* Fen::try_from(&str) on the whitespace-separated sections of the text.
\* outcome is "Ok", "Err" (a ChessError is returned) or "Panic" (an expect
\* on Coordinate::try_move fails).
Fen_try_from(sections) ==
  LET Err == [outcome |-> "Err", fen |-> NoFen]
      positioned(board, side_to_move, en_passant_target, left, right, fen) ==
        IF en_passant_target # NoCoordinate /\ y(en_passant_target) \notin {2, 5} THEN Err
        ELSE IF en_passant_target # NoCoordinate
                /\ (left = NoCoordinate \/ right = NoCoordinate)
        THEN [outcome |-> "Panic", fen |-> NoFen]
        ELSE IF en_passant_target # NoCoordinate
                /\ board[left] # Piece(side_to_move, "Pawn")
                /\ board[right] # Piece(side_to_move, "Pawn")
        THEN Err
        ELSE IF find_king(board, opponent(side_to_move))
                  \in generate_danger_zone(board, side_to_move)
        THEN Err
        ELSE [outcome |-> "Ok", fen |-> fen]
      dy(side_to_move) == IF side_to_move = "White" THEN 0 - 1 ELSE 1
      parsed(board, side_to_move, castling_ability, en_passant_target,
             half_moves, full_moves) ==
        IF ~Placement_try_from(sections[1]) THEN Err
        ELSE IF side_to_move = "None" THEN Err
        ELSE IF sections[3] # <<"-">> /\ ~castling_ability.some THEN Err
        ELSE IF sections[4] # <<"-">> /\ en_passant_target = NoCoordinate THEN Err
        ELSE IF half_moves < 0 \/ full_moves < 0 THEN Err
        ELSE IF Count(sections[1], "K") # 1 \/ Count(sections[1], "k") # 1 THEN Err
        ELSE IF ~castling_adds_up(board, castling_ability.bits) THEN Err
        ELSE positioned(board, side_to_move, en_passant_target,
                        try_move(en_passant_target, 0 - 1, dy(side_to_move)),
                        try_move(en_passant_target, 1, dy(side_to_move)),
                        Fen(sections[1], side_to_move, castling_ability,
                            en_passant_target, half_moves, full_moves))
  IN  IF Len(sections) # 6 THEN Err
      ELSE parsed(Board_from(sections[1]),
                  Color_try_from(sections[2]),
                  IF sections[3] = <<"-">> THEN NoAbility
                  ELSE CastlingAbility_try_from(sections[3]),
                  IF sections[4] = <<"-">> THEN NoCoordinate
                  ELSE Coordinate_try_from(sections[4]),
                  parse_usize(sections[5]),
                  parse_usize(sections[6]))

\* String::from(&Fen): format! puts one space between the six fields.
Fen_to_string(fen) ==
  fen.placement
    \o <<" ">> \o Color_to_string(fen.side_to_move)
    \o <<" ">> \o (IF fen.castling_ability.some
                    THEN CastlingAbility_to_string(fen.castling_ability.bits)
                    ELSE <<"-">>)
    \o <<" ">> \o (IF fen.en_passant_target # NoCoordinate
                    THEN Coordinate_to_string(fen.en_passant_target)
                    ELSE <<"-">>)
    \o <<" ">> \o usize_to_string(fen.half_moves)
    \o <<" ">> \o usize_to_string(fen.full_moves)

\* State::from(Fen) and Fen::from(State).
State_from(fen) ==
  State(Board_from(fen.placement), fen.side_to_move, fen.castling_ability,
        fen.en_passant_target, fen.half_moves, fen.full_moves)

Fen_from(state) ==
  Fen(Placement_from(state.board), state.side_to_move, state.castling_ability,
      state.en_passant_target, state.half_moves, state.full_moves)

(***************************************************************************)
(* Evaluation and search (Engine).  The searches work on one State with    *)
(* make and unmake; every operator returns the State it leaves behind, the *)
(* number of nodes it has counted, and whether the program has panicked.   *)
(***************************************************************************)
I16_MIN == 0 - 32768
I16_MAX == 32767
U16_MAX == 65535
CHECKMATE_EVALUATION == I16_MAX - 42

PieceKind_value(kind) ==
  IF kind = "Pawn" THEN 100
  ELSE IF kind = "Bishop" THEN 300
  ELSE IF kind = "Knight" THEN 300
  ELSE IF kind = "Rook" THEN 500
  ELSE IF kind = "Queen" THEN 900
  ELSE 0

opposite(strategy) == IF strategy = "Maximizing" THEN "Minimizing" ELSE "Maximizing"
Strategy_from(color) == IF color = "White" THEN "Maximizing" ELSE "Minimizing"

Winner(side) == [tag |-> "Winner", side |-> side, value |-> 0]
Draw == [tag |-> "Draw", side |-> "None", value |-> 0]
Static(v) == [tag |-> "Static", side |-> "None", value |-> v]

\* i16::from(Evaluation).
i16_from(evaluation) ==
  IF evaluation.tag = "Winner"
  THEN (IF evaluation.side = "White" THEN CHECKMATE_EVALUATION ELSE 0 - CHECKMATE_EVALUATION)
  ELSE IF evaluation.tag = "Draw" THEN 0
  ELSE evaluation.value

Evaluation_min(self, other) == IF i16_from(self) <= i16_from(other) THEN self ELSE other
Evaluation_max(self, other) == IF i16_from(self) >= i16_from(other) THEN self ELSE other

min(a, b) == IF a <= b THEN a ELSE b
max(a, b) == IF a >= b THEN a ELSE b

\* Board::unmake_move panics when a move with a modifier is unmade and the
\* square the move ended on is empty.
unmake_panics(state, undoer) ==
  undoer.move_undoer.modifer # NoModifier /\ state.board[undoer.move_undoer.lan.end] = None

\* The reward Engine::evaluate adds to the score of the side whose Analysis
\* is `own_analysis`: 75 when that Analysis reports Check, which is the state
\* of that side's own king.
check_bonus(own_analysis) == IF own_analysis.king_safety = "Check" THEN 75 ELSE 0

\* Engine::evaluate; the Evaluation, or a panic when a king is missing.
evaluate(state) ==
  LET material(color) ==
        LET RECURSIVE sum(_, _)
            sum(first, last) ==
              IF first = last
              THEN (IF state.board[first].color = color
                    THEN PieceKind_value(state.board[first].kind) ELSE 0)
              ELSE sum(first, (first + last) \div 2) + sum((first + last) \div 2 + 1, last)
        IN  sum(0, 63)
      initial_ranks(color, a, b) ==
        Cardinality({c \in Coordinates :
                       (y(c) = y(a) \/ y(c) = y(b)) /\ state.board[c].color = color})
      half_moves_penalty_multiplier ==
        IF state.half_moves <= 10 THEN 0
        ELSE IF state.half_moves <= 25 THEN 1
        ELSE IF state.half_moves <= 40 THEN 4
        ELSE IF state.half_moves <= 45 THEN 8
        ELSE 16
      half_moves_penalty == state.half_moves * half_moves_penalty_multiplier
      \* total moves are the listed moves, total control the size of the
      \* danger zone the side spreads, which is kept in the other's Analysis
      white_score(white_analysis, black_analysis) ==
        material("White")
          + check_bonus(white_analysis)
          + (TotalMovesOf(white_analysis) * 2 - TotalMovesOf(black_analysis))
          + (Cardinality(black_analysis.danger_zone) * 2
               - Cardinality(white_analysis.danger_zone))
          - initial_ranks("White", A1, A1 - BOARD_WIDTH) * 7
          - half_moves_penalty
      black_score(white_analysis, black_analysis) ==
        material("Black")
          + check_bonus(black_analysis)
          + (TotalMovesOf(black_analysis) * 2 - TotalMovesOf(white_analysis))
          + (Cardinality(white_analysis.danger_zone) * 2
               - Cardinality(black_analysis.danger_zone))
          - initial_ranks("Black", A8, A8 + BOARD_WIDTH) * 7
          - half_moves_penalty
      evaluated_from(white_analysis, black_analysis) ==
        IF white_analysis.king_safety = "Panic" \/ black_analysis.king_safety = "Panic"
        THEN [panic |-> TRUE, evaluation |-> Draw]
        ELSE [panic |-> FALSE,
              evaluation |->
                IF white_analysis.king_safety = "Checkmate" THEN Winner("Black")
                ELSE IF black_analysis.king_safety = "Checkmate" THEN Winner("White")
                ELSE IF white_analysis.king_safety = "Stalemate"
                        \/ black_analysis.king_safety = "Stalemate" THEN Draw
                ELSE IF state.half_moves >= 75 THEN Draw
                ELSE Static(max(I16_MIN,
                                min(I16_MAX, white_score(white_analysis, black_analysis)
                                               - black_score(white_analysis, black_analysis))))]
      evaluated(analysis) == evaluated_from(analysis["White"], analysis["Black"])
  IN  evaluated([color \in Colors |-> analyze(state, color)])

\* The score that orders a capture: the victim's value against the
\* capturer's, a captured king last; 0 when nothing of `victims` is taken.
capture_score(state, lan, victims) ==
  LET target == state.board[lan.end]
  IN  IF target.color \notin victims THEN 0
      ELSE IF target.kind = "King" THEN 1
      ELSE 900 + PieceKind_value(target.kind) - PieceKind_value(state.board[lan.start].kind)

\* slice::sort_by(|a, b| b.0.cmp(&a.0)): stable, by descending score.  An
\* element goes to the place that counts the elements before it in that order.
sort_by_score(moves) ==
  LET place == [i \in 1 .. Len(moves) |->
                  1 + Cardinality({j \in 1 .. Len(moves) :
                                     \/ moves[j][1] > moves[i][1]
                                     \/ moves[j][1] = moves[i][1] /\ j < i})]
  IN  [k \in 1 .. Len(moves) |-> moves[CHOOSE i \in 1 .. Len(moves) : place[i] = k]]

\* What a search hands back: the State it leaves behind, the Evaluation, the
\* transformations from this node down (empty for a None transformation),
\* the running node count, and whether the program has panicked.
SearchResult(panic, state, evaluation, line, searched) ==
  [panic |-> panic, state |-> state, evaluation |-> evaluation, line |-> line,
   searched |-> searched]

\* The variables of a search loop between two iterations; stop is set by a
\* break and by a panic.
SearchLoop(panic, stop, state, evaluation, line, searched, alpha, beta) ==
  [panic |-> panic, stop |-> stop, state |-> state, evaluation |-> evaluation,
   line |-> line, searched |-> searched, alpha |-> alpha, beta |-> beta]

Panicked(loop, state, searched) ==
  [loop EXCEPT !.panic = TRUE, !.stop = TRUE, !.state = state, !.searched = searched]

\* The result of a search whose loop has ended; a quiescence search hands
\* back no transformation.
Searched(looped, line) ==
  SearchResult(looped.panic, looped.state, looped.evaluation, line, looped.searched)

initial_evaluation(state) ==
  IF state.side_to_move = "White" THEN Static(I16_MIN) ELSE Static(I16_MAX)

RECURSIVE quiescence(_, _, _, _, _)
RECURSIVE quiescence_loop(_, _, _, _, _)
RECURSIVE minimax(_, _, _, _, _, _, _, _)
RECURSIVE minimax_loop(_, _, _, _, _, _, _, _)
RECURSIVE perft(_, _)
RECURSIVE perft_loop(_, _, _, _, _)
RECURSIVE go_perft_loop(_, _, _, _, _)

\* One iteration of the loop over the ordered moves, the same in
\* Engine::quiescence and in Engine::quiescence_minimax.
quiescence_step(lan, loop, strategy) ==
  LET new_alpha(score) == IF strategy = "Maximizing" THEN max(loop.alpha, score) ELSE loop.alpha
      new_beta(score) == IF strategy = "Minimizing" THEN min(loop.beta, score) ELSE loop.beta
      unmade(made, next) ==
        IF next.panic \/ unmake_panics(next.state, made.undoer)
        THEN Panicked(loop, next.state, next.searched)
        ELSE SearchLoop(FALSE,
                        new_beta(i16_from(next.evaluation))
                          <= new_alpha(i16_from(next.evaluation)),
                        State_unmake_move(next.state, made.undoer),
                        IF strategy = "Maximizing"
                        THEN Evaluation_max(loop.evaluation, next.evaluation)
                        ELSE Evaluation_min(loop.evaluation, next.evaluation),
                        <<>>, next.searched,
                        new_alpha(i16_from(next.evaluation)),
                        new_beta(i16_from(next.evaluation)))
      searched(made) ==
        IF ~made.ok THEN Panicked(loop, made.state, loop.searched + 1)
        ELSE unmade(made, quiescence(made.state, loop.searched + 1, loop.alpha, loop.beta,
                                     opposite(strategy)))
  IN  searched(State_make_move(loop.state, lan))

\* The iterations after `middle` up to `last` of that loop, given what the
\* earlier ones leave; a break ends the loop.
quiescence_rest(moves, middle, last, after, strategy) ==
  IF after.stop THEN after ELSE quiescence_loop(moves, middle + 1, last, after, strategy)

\* The iterations first .. last of that loop, in order, first <= last.  (The
\* range is halved to keep the evaluation shallow; the later half starts from
\* what the earlier half leaves.)
quiescence_loop(moves, first, last, loop, strategy) ==
  IF first = last THEN quiescence_step(moves[first][2], loop, strategy)
  ELSE quiescence_rest(moves, (first + last) \div 2, last,
                       quiescence_loop(moves, first, (first + last) \div 2, loop, strategy),
                       strategy)

\* Engine::quiescence_minimax: every listed move, captures first.
quiescence_minimax(state, searched, alpha, beta, strategy, analysis) ==
  LET enemy == opponent(state.side_to_move)
      scored(listed) ==
        [i \in 1 .. Len(listed) |-> <<capture_score(state, listed[i], {enemy}), listed[i]>>]
      needs_sorting(listed) ==
        \E i \in 1 .. Len(listed) : state.board[listed[i].end].color = enemy
      looped(moves) ==
        IF moves = <<>>
        THEN SearchLoop(FALSE, FALSE, state, initial_evaluation(state), <<>>,
                        searched, alpha, beta)
        ELSE quiescence_loop(moves, 1, Len(moves),
                             SearchLoop(FALSE, FALSE, state, initial_evaluation(state), <<>>,
                                        searched, alpha, beta),
                             strategy)
      ordered(listed) ==
        looped(IF needs_sorting(listed) THEN sort_by_score(scored(listed))
               ELSE scored(listed))
  IN  ordered(listed_moves(analysis))

\* Engine::quiescence.
quiescence(state, searched, alpha, beta, strategy) ==
  LET new_alpha(score) == IF strategy = "Maximizing" THEN max(alpha, score) ELSE alpha
      new_beta(score) == IF strategy = "Minimizing" THEN min(beta, score) ELSE beta
      evaluation(standing_pat) ==
        IF strategy = "Maximizing"
        THEN Evaluation_max(initial_evaluation(state), standing_pat.evaluation)
        ELSE Evaluation_min(initial_evaluation(state), standing_pat.evaluation)
      scored(captures) ==
        [i \in 1 .. Len(captures) |->
           <<capture_score(state, captures[i], Colors), captures[i]>>]
      quiet(standing_pat, captures) ==
        IF standing_pat.panic THEN SearchResult(TRUE, state, Draw, <<>>, searched)
        ELSE IF \/ new_beta(i16_from(standing_pat.evaluation))
                     <= new_alpha(i16_from(standing_pat.evaluation))
                \/ captures = <<>>
        THEN SearchResult(FALSE, state, evaluation(standing_pat), <<>>, searched)
        ELSE Searched(quiescence_loop(sort_by_score(scored(captures)), 1, Len(captures),
                                      SearchLoop(FALSE, FALSE, state,
                                                 evaluation(standing_pat), <<>>, searched,
                                                 new_alpha(i16_from(standing_pat.evaluation)),
                                                 new_beta(i16_from(standing_pat.evaluation))),
                                      strategy),
                      <<>>)
      analyzed(analysis) ==
        IF analysis.king_safety = "Panic"
        THEN SearchResult(TRUE, state, Draw, <<>>, searched)
        ELSE IF analysis.king_safety = "Checkmate"
        THEN SearchResult(FALSE, state, Winner(opponent(state.side_to_move)), <<>>, searched)
        ELSE IF analysis.king_safety = "Stalemate"
        THEN SearchResult(FALSE, state, Draw, <<>>, searched)
        ELSE IF analysis.king_safety = "Check"
        THEN Searched(quiescence_minimax(state, searched, alpha, beta, strategy, analysis),
                      <<>>)
        ELSE quiet(evaluate(state),
                   SelectSeq(listed_moves(analysis),
                             LAMBDA lan : state.board[lan.end] # None))
  IN  analyzed(analyze(state, state.side_to_move))

\* Option<Vec<Lan>>: the line of the previous iteration.
NoLine == [some |-> FALSE, lans |-> <<>>]
SomeLine(lans) == [some |-> TRUE, lans |-> lans]

\* Lines 4000-4004: line.get(line.len() + 1 - depth) in usize arithmetic.  When
\* the subtraction goes below zero a build with overflow checks panics and a
\* build without them wraps to an index past the end of the line.
hint_index(line, depth) == Len(line.lans) + 1 - depth

target_of(line, depth, overflow_checks) ==
  LET index == hint_index(line, depth)
  IN  IF ~line.some THEN [panic |-> FALSE, lan |-> NoLan]
      ELSE IF index < 0 THEN [panic |-> overflow_checks, lan |-> NoLan]
      ELSE IF index >= Len(line.lans) THEN [panic |-> FALSE, lan |-> NoLan]
      ELSE [panic |-> FALSE, lan |-> line.lans[index + 1]]

\* Vec::swap(0, pivot), on 1-based sequences.
swap(moves, pivot) ==
  [i \in 1 .. Len(moves) |->
     IF i = 1 THEN moves[pivot] ELSE IF i = pivot THEN moves[1] ELSE moves[i]]

\* A test that ends the loop as long as the window is still open.
cuts_off_reversed(alpha, beta) == alpha <= beta

\* Lines 4112-4114: the test that ends the loop of Engine::minimax.
cuts_off(alpha, beta) == beta <= alpha

\* Lines 4066-4114: one iteration of the loop of Engine::minimax.
minimax_step(lan, loop, depth, line, strategy, overflow_checks) ==
  LET improves(score) ==
        IF strategy = "Maximizing" THEN score > loop.alpha ELSE score < loop.beta
      new_alpha(score) ==
        IF strategy = "Maximizing" /\ improves(score) THEN score ELSE loop.alpha
      new_beta(score) ==
        IF strategy = "Minimizing" /\ improves(score) THEN score ELSE loop.beta
      unmade(made, node) ==
        IF node.panic \/ unmake_panics(node.state, made.undoer)
        THEN Panicked(loop, node.state, node.searched)
        ELSE SearchLoop(FALSE,
                        cuts_off(new_alpha(i16_from(node.evaluation)),
                                 new_beta(i16_from(node.evaluation))),
                        State_unmake_move(node.state, made.undoer),
                        IF strategy = "Maximizing"
                        THEN Evaluation_max(loop.evaluation, node.evaluation)
                        ELSE Evaluation_min(loop.evaluation, node.evaluation),
                        IF improves(i16_from(node.evaluation))
                        THEN <<lan>> \o node.line ELSE loop.line,
                        node.searched,
                        new_alpha(i16_from(node.evaluation)),
                        new_beta(i16_from(node.evaluation)))
      searched(made) ==
        IF ~made.ok THEN Panicked(loop, made.state, loop.searched + 1)
        ELSE unmade(made, minimax(made.state, depth - 1, loop.searched + 1, line,
                                  loop.alpha, loop.beta, opposite(strategy),
                                  overflow_checks))
  IN  searched(State_make_move(loop.state, lan))

\* The iterations after `middle` up to `last` of that loop, given what the
\* earlier ones leave; a break ends the loop.
minimax_rest(moves, middle, last, after, depth, line, strategy, overflow_checks) ==
  IF after.stop THEN after
  ELSE minimax_loop(moves, middle + 1, last, after, depth, line, strategy, overflow_checks)

\* The iterations first .. last of that loop, in order, first <= last.
minimax_loop(moves, first, last, loop, depth, line, strategy, overflow_checks) ==
  IF first = last
  THEN minimax_step(moves[first][2], loop, depth, line, strategy, overflow_checks)
  ELSE minimax_rest(moves, (first + last) \div 2, last,
                    minimax_loop(moves, first, (first + last) \div 2, loop, depth, line,
                                 strategy, overflow_checks),
                    depth, line, strategy, overflow_checks)

\* Engine::minimax.
minimax(state, depth, searched, line, alpha, beta, strategy, overflow_checks) ==
  LET enemy == opponent(state.side_to_move)
      pivots(listed, target) == {i \in 1 .. Len(listed) : listed[i] = target.lan}
      scored(listed, target) ==
        [i \in 1 .. Len(listed) |->
           IF listed[i] = target.lan THEN <<U16_MAX, listed[i]>>
           ELSE <<capture_score(state, listed[i], {enemy}), listed[i]>>]
      needs_sorting(listed, target) ==
        \E i \in 1 .. Len(listed) :
          listed[i] # target.lan /\ state.board[listed[i].end].color = enemy
      \* the closure keeps the last index that matches
      swapped(listed, target) ==
        IF pivots(listed, target) = {} THEN scored(listed, target)
        ELSE swap(scored(listed, target),
                  CHOOSE i \in pivots(listed, target) :
                    \A j \in pivots(listed, target) : j <= i)
      looped(moves) ==
        IF moves = <<>>
        THEN SearchLoop(FALSE, FALSE, state, initial_evaluation(state), <<>>,
                        searched, alpha, beta)
        ELSE minimax_loop(moves, 1, Len(moves),
                          SearchLoop(FALSE, FALSE, state, initial_evaluation(state), <<>>,
                                     searched, alpha, beta),
                          depth, line, strategy, overflow_checks)
      finished(result) == Searched(result, result.line)
      ordered(listed, target) ==
        IF target.panic THEN SearchResult(TRUE, state, Draw, <<>>, searched)
        ELSE finished(looped(IF needs_sorting(listed, target)
                             THEN sort_by_score(swapped(listed, target))
                             ELSE swapped(listed, target)))
      analyzed(analysis) ==
        IF analysis.king_safety = "Panic"
        THEN SearchResult(TRUE, state, Draw, <<>>, searched)
        ELSE IF analysis.king_safety = "Checkmate"
        THEN SearchResult(FALSE, state, Winner(opponent(state.side_to_move)), <<>>, searched)
        ELSE IF analysis.king_safety = "Stalemate"
        THEN SearchResult(FALSE, state, Draw, <<>>, searched)
        ELSE ordered(listed_moves(analysis), target_of(line, depth, overflow_checks))
  IN  IF depth = 0 THEN quiescence(state, searched, alpha, beta, strategy)
      ELSE analyzed(analyze(state, state.side_to_move))

\* Score and InfoStatistics; the fields the engine leaves None are left out.
Cp(v) == [tag |-> "cp", value |-> v]
Mate(v) == [tag |-> "mate", value |-> v]
InfoStatistics(depth, nodes, pv, score) ==
  [depth |-> depth, nodes |-> nodes, pv |-> pv, score |-> score]
NoInfo == InfoStatistics(0, 0, <<>>, Cp(0))

\* A score that counts the moves to a mate without telling who is mated.
score_unsigned(state, evaluation, line) ==
  IF evaluation.tag = "Winner" THEN Mate((Len(line) + 1) \div 2)
  ELSE Cp(i16_from(evaluation))

\* Lines 4164-4175: the Score of Engine::analyze, from the State after the
\* search, the Evaluation of the root and the line; the f32 division by 2.0
\* and ceil() of line.len() are (len + 1) div 2.
score_of(state, evaluation, line) ==
  LET sign == IF state.side_to_move # evaluation.side THEN 0 - 1 ELSE 1
  IN  IF evaluation.tag = "Winner" THEN Mate(((Len(line) + 1) \div 2) * sign)
      ELSE Cp(i16_from(evaluation))

\* Engine::analyze.
Engine_analyze(state, depth, line, overflow_checks) ==
  LET score(result) == score_of(result.state, result.evaluation, result.line)
      analyzed(result) ==
        IF result.panic THEN [panic |-> TRUE, state |-> result.state, info |-> NoInfo]
        ELSE IF result.line = <<>>
        THEN [panic |-> TRUE, state |-> result.state, info |-> NoInfo]
        ELSE [panic |-> FALSE, state |-> result.state,
              info |-> InfoStatistics(depth, result.searched, result.line, score(result))]
  IN  IF depth = 0 THEN [panic |-> TRUE, state |-> state, info |-> NoInfo]
      ELSE analyzed(minimax(state, depth, 0, line, I16_MIN, I16_MAX,
                            Strategy_from(state.side_to_move), overflow_checks))

\* Engine::perft; the count and the State the walk leaves behind.
perft_step(lan, loop, depth) ==
  LET unmade(made, inner) ==
        IF inner.panic \/ unmake_panics(inner.state, made.undoer)
        THEN [panic |-> TRUE, state |-> inner.state, total |-> loop.total]
        ELSE [panic |-> FALSE, state |-> State_unmake_move(inner.state, made.undoer),
              total |-> loop.total + inner.total]
      counted(made) ==
        IF ~made.ok THEN [panic |-> TRUE, state |-> made.state, total |-> loop.total]
        ELSE unmade(made, perft(made.state, depth - 1))
  IN  counted(State_make_move(loop.state, lan))

\* The iterations after `middle` up to `last` of the loop of Engine::perft,
\* given what the earlier ones leave; a panic ends the loop.
perft_rest(moves, middle, last, after, depth) ==
  IF after.panic THEN after ELSE perft_loop(moves, middle + 1, last, after, depth)

\* The iterations first .. last of that loop, in order, first <= last.
perft_loop(moves, first, last, loop, depth) ==
  IF first = last THEN perft_step(moves[first], loop, depth)
  ELSE perft_rest(moves, (first + last) \div 2, last,
                  perft_loop(moves, first, (first + last) \div 2, loop, depth), depth)

perft(state, depth) ==
  LET counted(analysis, listed) ==
        IF analysis.king_safety = "Panic"
        THEN [panic |-> TRUE, state |-> state, total |-> 0]
        ELSE IF depth = 1 \/ listed = <<>>
        THEN [panic |-> FALSE, state |-> state, total |-> Len(listed)]
        ELSE perft_loop(listed, 1, Len(listed),
                        [panic |-> FALSE, state |-> state, total |-> 0], depth)
      analyzed(analysis) == counted(analysis, listed_moves(analysis))
  IN  IF depth = 0 THEN [panic |-> FALSE, state |-> state, total |-> 1]
      ELSE analyzed(analyze(state, state.side_to_move))

(***************************************************************************)
(* Lan's text, Command::try_from and Engine::make_sequence.                *)
(***************************************************************************)
\* Lan::try_from(&str); NoLan for Err.
Lan_try_from(text) ==
  LET promoted(start, end, promotion) ==
        IF promotion = "None" THEN NoLan ELSE Lan(start, end, promotion)
      parsed(value, start, end) ==
        IF start = NoCoordinate \/ end = NoCoordinate THEN NoLan
        ELSE IF Len(value) = 4 THEN Lan(start, end, "None")
        ELSE promoted(start, end, PieceKind_try_from(value[5]))
      lowered(value) ==
        parsed(value, Coordinate_try_from(SubSeq(value, 1, 2)),
               Coordinate_try_from(SubSeq(value, 3, 4)))
  IN  IF Len(text) < 4 \/ Len(text) > 5 THEN NoLan
      ELSE lowered([i \in 1 .. Len(text) |-> to_lowercase(text[i])])

\* String::from(Lan).
Lan_to_string(lan) ==
  Coordinate_to_string(lan.start) \o Coordinate_to_string(lan.end)
    \o (IF lan.promotion = "None" THEN <<>>
        ELSE <<PieceLetters[IndexOf(PieceLetterKinds, lan.promotion)]>>)

\* A parse that keeps the low eight bits of a number too large for a u8.
parse_u8_wrapping(value) ==
  LET n == parse_usize(value)
  IN  IF n < 0 THEN n ELSE n % 256

\* str::parse::<u8>(); -1 for Err.
parse_u8(value) ==
  LET n == parse_usize(value)
  IN  IF n > 255 THEN 0 - 1 ELSE n

WhiteSpace == {" ", "\t", "\n", "\r"}

\* str::split_whitespace(): the non-empty pieces between white space.
split_whitespace(value) ==
  LET spaced == [i \in 1 .. Len(value) |-> IF value[i] \in WhiteSpace THEN " " ELSE value[i]]
  IN  SelectSeq(split(spaced, " "), LAMBDA piece : piece # <<>>)

starts_with(value, prefix) ==
  Len(value) >= Len(prefix) /\ SubSeq(value, 1, Len(prefix)) = prefix

\* The words Command::try_from compares its input with.
UCI == <<"u", "c", "i">>
ISREADY == <<"i", "s", "r", "e", "a", "d", "y">>
POSITION == <<"p", "o", "s", "i", "t", "i", "o", "n">>
STARTPOS == <<"s", "t", "a", "r", "t", "p", "o", "s">>
FEN == <<"f", "e", "n">>
MOVES == <<"m", "o", "v", "e", "s">>
GO == <<"g", "o">>
DEPTH == <<"d", "e", "p", "t", "h">>
PERFT == <<"p", "e", "r", "f", "t">>
QUIT == <<"q", "u", "i", "t">>
D == <<"d">>
FLIP == <<"f", "l", "i", "p">>

STARTING_PLACEMENT ==
  << "r", "n", "b", "q", "k", "b", "n", "r", "/", "p", "p", "p", "p", "p", "p", "p", "p", "/",
     "8", "/", "8", "/", "8", "/", "8", "/",
     "P", "P", "P", "P", "P", "P", "P", "P", "/", "R", "N", "B", "Q", "K", "B", "N", "R" >>

\* State::default().
State_default ==
  State(Board_from(STARTING_PLACEMENT), "White", SomeAbility(CastlingFlags), NoCoordinate, 0, 1)

\* Engine::make_sequence; the State is changed in place, so the moves made
\* before an illegal one stay made in it.
RECURSIVE make_sequence(_, _)
make_sequence(state, sequence) ==
  IF sequence = <<>> THEN [outcome |-> "Ok", state |-> state]
  ELSE LET lan == Head(sequence)
           continued(made) ==
             IF ~made.ok THEN [outcome |-> "Panic", state |-> made.state]
             ELSE make_sequence(made.state, Tail(sequence))
           analyzed(analysis) ==
             IF analysis.king_safety = "Panic" THEN [outcome |-> "Panic", state |-> state]
             ELSE IF lan \notin Range(analysis.moves[lan.start])
             THEN [outcome |-> "Err", state |-> state]
             ELSE continued(State_make_move(state, lan))
       IN  analyzed(analyze(state, state.side_to_move))

GoDepth(depth) == [tag |-> "Depth", depth |-> depth]
GoPerft(depth) == [tag |-> "Perft", depth |-> depth]
NoParams == [tag |-> "None", depth |-> 0]
Command(tag, state, params) == [tag |-> tag, state |-> state, params |-> params]
\* What fills the State of a Command whose variant carries none.
NoState == State([coordinate \in Coordinates |-> None], "White", NoAbility, NoCoordinate, 0, 0)

\* Lines 3386-3411 and 3465-3490: the optional [moves <move>...] tail of a
\* position command, applied to the State the command has built.
position_tail(state, sections) ==
  LET Err(message) == [outcome |-> "Err", message |-> message,
                       command |-> Command("None", state, NoParams)]
      sequenced(made) ==
        IF made.outcome = "Err" THEN Err("A move in the given sequence is not legal.")
        ELSE IF made.outcome = "Panic"
        THEN [outcome |-> "Panic", message |-> "",
              command |-> Command("None", state, NoParams)]
        ELSE [outcome |-> "Ok", message |-> "",
              command |-> Command("Position", made.state, NoParams)]
      parsed(lans) ==
        IF NoLan \in Range(lans)
        THEN Err("A string in the given move sequence is not a valid Lan string.")
        ELSE sequenced(make_sequence(state, lans))
  IN  IF sections = <<>>
      THEN [outcome |-> "Ok", message |-> "", command |-> Command("Position", state, NoParams)]
      ELSE IF sections[1] # MOVES
      THEN Err("The given subcommand is not valid; expected [moves <move>...]")
      ELSE parsed([i \in 1 .. Len(sections) - 1 |-> Lan_try_from(sections[i + 1])])

\* Command::try_from(&str).  outcome is "Ok", "Err" (with the message of the
\* ChessError) or "Panic".
Command_try_from(value) ==
  LET Ok(command) == [outcome |-> "Ok", message |-> "", command |-> command]
      Err(message) == [outcome |-> "Err", message |-> message,
                       command |-> Command("None", NoState, NoParams)]
      from_fen(fen, sections) ==
        IF fen.outcome = "Err" THEN Err("The given string is not a valid Fen string.")
        ELSE IF fen.outcome = "Panic"
        THEN [outcome |-> "Panic", message |-> "",
              command |-> Command("None", NoState, NoParams)]
        ELSE position_tail(State_from(fen.fen), SubSeq(sections, 8, Len(sections)))
      position(sections) ==
        IF sections = <<>> THEN Err("Expected <startpos | fen> subcommand.")
        ELSE IF sections[1] = STARTPOS THEN position_tail(State_default, Tail(sections))
        ELSE IF sections[1] = FEN
        THEN IF Len(sections) < 7
             THEN Err("Expected a valid Fen string to follow \"position fen\".")
             ELSE from_fen(Fen_try_from(SubSeq(sections, 2, 7)), sections)
        ELSE Err("The given subcommand is not valid; expected <startpos | fen>")
      go_params(depth, params) ==
        IF depth < 0 THEN Err("The given string is not a valid u8 string.")
        ELSE Ok(Command("Go", NoState, [params EXCEPT !.depth = depth]))
      go(sections) ==
        IF sections = <<>> THEN Err("Expected <depth | perft> subcommand.")
        ELSE IF sections[1] = DEPTH
        THEN IF Len(sections) < 2
             THEN Err("Expected a valid u8 string to follow \"go depth\".")
             ELSE go_params(parse_u8(sections[2]), GoDepth(0))
        ELSE IF sections[1] = PERFT
        THEN IF Len(sections) < 2
             THEN Err("Expected a valid u8 string to follow \"go perft\".")
             ELSE go_params(parse_u8(sections[2]), GoPerft(0))
        ELSE Err("The given subcommand is not valid; expected <depth | perft>")
  IN  IF value = UCI THEN Ok(Command("Uci", NoState, NoParams))
      ELSE IF value = ISREADY THEN Ok(Command("Isready", NoState, NoParams))
      ELSE IF starts_with(value, POSITION) THEN position(Tail(split_whitespace(value)))
      ELSE IF starts_with(value, GO) THEN go(Tail(split_whitespace(value)))
      ELSE IF value = QUIT THEN Ok(Command("Quit", NoState, NoParams))
      ELSE IF value = D THEN Ok(Command("D", NoState, NoParams))
      ELSE IF value = FLIP THEN Ok(Command("Flip", NoState, NoParams))
      ELSE Err("Unknown command.")

(***************************************************************************)
(* Pescado: the driver.  A line handed to the callback is a record whose   *)
(* kind tells which of the other fields it carries.                        *)
(***************************************************************************)
TextLine(text) == [kind |-> "text", text |-> text]
ErrorLine(message) == [kind |-> "Error", message |-> message]
InfoLine(info) == [kind |-> "info", info |-> info]
\* Suggestion; ponder is NoLan when the line has one move only.
BestmoveLine(lan, ponder) == [kind |-> "bestmove", lan |-> lan, ponder |-> ponder]
PerftLine(entries, total) == [kind |-> "perft", entries |-> entries, total |-> total]
BoardLine(rows, fen) == [kind |-> "d", rows |-> rows, fen |-> fen]

\* Lines 4214-4220: the iterations of Pescado::go_depth from i on.
RECURSIVE go_depth_loop(_, _, _, _, _, _)
go_depth_loop(state, i, depth, line, output, overflow_checks) ==
  IF i > depth
  THEN [panic |-> FALSE, state |-> state,
        output |-> Append(output,
                          BestmoveLine(line.lans[1],
                                       IF Len(line.lans) > 1 THEN line.lans[2] ELSE NoLan))]
  ELSE LET iterated(analysed) ==
             IF analysed.panic
             THEN [panic |-> TRUE, state |-> analysed.state, output |-> output]
             ELSE go_depth_loop(analysed.state, i + 1, depth, SomeLine(analysed.info.pv),
                                Append(output, InfoLine(analysed.info)), overflow_checks)
       IN  iterated(Engine_analyze(state, i, line, overflow_checks))

\* Pescado::go_depth.
go_depth(state, depth, overflow_checks) ==
  IF depth = 0 THEN [panic |-> FALSE, state |-> state, output |-> <<>>]
  ELSE go_depth_loop(state, 1, depth, NoLine, <<>>, overflow_checks)

\* Lines 4244-4257: the loop of Pescado::go_perft.
go_perft_step(lan, loop, depth) ==
  LET unmade(made, inner) ==
        IF inner.panic \/ unmake_panics(inner.state, made.undoer)
        THEN [loop EXCEPT !.panic = TRUE, !.state = inner.state]
        ELSE [panic |-> FALSE, state |-> State_unmake_move(inner.state, made.undoer),
              entries |-> Append(loop.entries, <<Lan_to_string(lan), inner.total>>),
              total |-> loop.total + inner.total]
      counted(made) ==
        IF ~made.ok THEN [loop EXCEPT !.panic = TRUE, !.state = made.state]
        ELSE unmade(made, perft(made.state, depth - 1))
  IN  counted(State_make_move(loop.state, lan))

go_perft_rest(moves, middle, last, after, depth) ==
  IF after.panic THEN after ELSE go_perft_loop(moves, middle + 1, last, after, depth)

\* The iterations first .. last of that loop, in order, first <= last.
go_perft_loop(moves, first, last, loop, depth) ==
  IF first = last THEN go_perft_step(moves[first], loop, depth)
  ELSE go_perft_rest(moves, (first + last) \div 2, last,
                     go_perft_loop(moves, first, (first + last) \div 2, loop, depth), depth)

\* Pescado::go_perft.
go_perft(state, depth) ==
  LET reported(looped) ==
        IF looped.panic THEN [panic |-> TRUE, state |-> looped.state, output |-> <<>>]
        ELSE [panic |-> FALSE, state |-> looped.state,
              output |-> <<PerftLine(looped.entries, looped.total)>>]
      counted(listed) ==
        reported(IF listed = <<>>
                 THEN [panic |-> FALSE, state |-> state, entries |-> <<>>, total |-> 0]
                 ELSE go_perft_loop(listed, 1, Len(listed),
                                    [panic |-> FALSE, state |-> state, entries |-> <<>>,
                                     total |-> 0],
                                    depth))
      analyzed(analysis) ==
        IF analysis.king_safety = "Panic"
        THEN [panic |-> TRUE, state |-> state, output |-> <<>>]
        ELSE counted(listed_moves(analysis))
  IN  IF depth = 0 THEN [panic |-> FALSE, state |-> state, output |-> <<>>]
      ELSE analyzed(analyze(state, state.side_to_move))

\* Pescado::d: the characters of the eight rows and the Fen text.
d(state) ==
  BoardLine([cy \in 1 .. BOARD_HEIGHT |->
               [cx \in 1 .. BOARD_WIDTH |->
                  LET piece == state.board[(cy - 1) * BOARD_WIDTH + (cx - 1)]
                  IN  IF piece = None THEN " " ELSE Piece_to_char(piece)]],
            Fen_to_string(Fen_from(state)))

\* Pescado::flip.
\* A flip that also counts as a move.
flip_counting(state) ==
  [state EXCEPT !.side_to_move = opponent(state.side_to_move), !.full_moves = @ + 1]

flip(state) == [state EXCEPT !.side_to_move = opponent(state.side_to_move)]

\* A send that swallows the error of a rejected command.
send_error_unreported(state, message) ==
  [panic |-> FALSE, state |-> state, output |-> <<>>]

\* Lines 4352-4354, the Err arm of Pescado::send: the error is handed to the
\* callback and nothing else happens.
send_error(state, message) ==
  [panic |-> FALSE, state |-> state, output |-> <<ErrorLine(message)>>]

\* Pescado::send: the State of the driver afterwards, the lines handed to the
\* callback, and whether the program has panicked on the way.
send(state, value, overflow_checks) ==
  LET Done(new_state, output) == [panic |-> FALSE, state |-> new_state, output |-> output]
      run(command) ==
        IF command.tag = "Uci"
        THEN Done(state, << TextLine("id name Pescado"),
                            TextLine("id author the Pescado developers"),
                            TextLine("uciok") >>)
        ELSE IF command.tag = "Isready" THEN Done(state, <<TextLine("readyok")>>)
        ELSE IF command.tag = "Position" THEN Done(command.state, <<>>)
        ELSE IF command.tag = "Go" /\ command.params.tag = "Depth"
        THEN go_depth(state, command.params.depth, overflow_checks)
        ELSE IF command.tag = "Go" THEN go_perft(state, command.params.depth)
        ELSE IF command.tag = "Quit" THEN Done(state, <<>>)
        ELSE IF command.tag = "D" THEN Done(state, <<d(state)>>)
        ELSE Done(flip(state), <<>>)
      parsed(result) ==
        IF result.outcome = "Panic" THEN [panic |-> TRUE, state |-> state, output |-> <<>>]
        ELSE IF result.outcome = "Err" THEN send_error(state, result.message)
        ELSE run(result.command)
  IN  parsed(Command_try_from(value))

(***************************************************************************)
(* The core of the engine: a position is loaded from a FEN text, listed    *)
(* moves are made and unmade (Engine::perft and the searches walk the game *)
(* tree this way).                                                          *)
(***************************************************************************)
VARIABLES
  state,     \* the State the engine works on
  undoers,   \* the StateUndoers of the moves made and not yet unmade
  saved,     \* history: the State each of those moves was made from
  last,      \* history: the latest operation, its move and the State it
             \* started from (for an unmake: the State it has to restore)
  pescado,          \* the State field of the driver (Pescado)
  output,           \* the lines the latest command handed to the callback
  command,          \* history: the text of the latest command
  previous,         \* history: the driver's State before the latest command
  crashed,          \* the program has panicked
  overflow_checks,  \* the build checks integer overflow (debug) or wraps (release)
  sent,             \* the number of commands sent
  fen_sections,     \* the sections of a text handed to Fen::try_from
  fen_result        \* what Fen::try_from made of them

core_vars == <<state, undoers, saved, last>>
driver_vars == <<pescado, output, command, previous, crashed, overflow_checks, sent>>
fen_vars == <<fen_sections, fen_result>>
vars == <<state, undoers, saved, last,
          pescado, output, command, previous, crashed, overflow_checks, sent,
          fen_sections, fen_result>>

MaxPly == 2


\* The FEN texts a position is loaded from.
SeedFens ==
  <<
   \* both sides may castle on either wing; a pawn can promote by capturing the rook on a8
   \*   r3k2r/1P6/8/8/8/8/8/R3K2R w KQkq - 0 1
   << <<"r", "3", "k", "2", "r", "/", "1", "P", "6", "/", "8", "/", "8", "/", "8", "/", "8", "/", "8", "/", "R", "3", "K", "2", "R">>,
      <<"w">>,
      <<"K", "Q", "k", "q">>,
      <<"-">>,
      <<"0">>,
      <<"1">> >>,
   \* a double push of the e-pawn passes a black pawn on d4, one of the a-pawn passes none
   \*   4k3/8/8/8/3p4/8/P3P3/4K3 w - - 0 1
   << <<"4", "k", "3", "/", "8", "/", "8", "/", "8", "/", "3", "p", "4", "/", "8", "/", "P", "3", "P", "3", "/", "4", "K", "3">>,
      <<"w">>,
      <<"-">>,
      <<"-">>,
      <<"0">>,
      <<"1">> >>,
   \* an en passant target with no pawn in front of it
   \*   4k3/8/8/8/3p4/8/8/4K3 b - e3 0 1
   << <<"4", "k", "3", "/", "8", "/", "8", "/", "8", "/", "3", "p", "4", "/", "8", "/", "8", "/", "4", "K", "3">>,
      <<"b">>,
      <<"-">>,
      <<"e", "3">>,
      <<"0">>,
      <<"1">> >>,
   \* an en passant capture that would clear the fourth rank between rook and king
   \*   8/8/8/8/1k2Pp1R/8/8/4K3 b - e3 0 1
   << <<"8", "/", "8", "/", "8", "/", "8", "/", "1", "k", "2", "P", "p", "1", "R", "/", "8", "/", "8", "/", "4", "K", "3">>,
      <<"b">>,
      <<"-">>,
      <<"e", "3">>,
      <<"0">>,
      <<"1">> >>,
   \* a pawn pinned on the diagonal on which its en passant capture lands
   \*   7b/8/8/4Pp2/8/2K5/8/7k w - f6 0 1
   << <<"7", "b", "/", "8", "/", "8", "/", "4", "P", "p", "2", "/", "8", "/", "2", "K", "5", "/", "8", "/", "7", "k">>,
      <<"w">>,
      <<"-">>,
      <<"f", "6">>,
      <<"0">>,
      <<"1">> >>,
   \* a king without a safe square and a blocked pawn
   \*   7k/8/8/8/7p/7P/2q5/K7 w - - 0 1
   << <<"7", "k", "/", "8", "/", "8", "/", "8", "/", "7", "p", "/", "7", "P", "/", "2", "q", "5", "/", "K", "7">>,
      <<"w">>,
      <<"-">>,
      <<"-">>,
      <<"0">>,
      <<"1">> >>,
   \* a king without a safe square and a rook pinned on the h-file
   \*   k5rr/8/8/8/8/8/7R/7K w - - 0 1
   << <<"k", "5", "r", "r", "/", "8", "/", "8", "/", "8", "/", "8", "/", "8", "/", "7", "R", "/", "7", "K">>,
      <<"w">>,
      <<"-">>,
      <<"-">>,
      <<"0">>,
      <<"1">> >>,
   \* a back-rank mate
   \*   6k1/8/8/8/8/8/5PPP/r5K1 w - - 0 1
   << <<"6", "k", "1", "/", "8", "/", "8", "/", "8", "/", "8", "/", "8", "/", "5", "P", "P", "P", "/", "r", "5", "K", "1">>,
      <<"w">>,
      <<"-">>,
      <<"-">>,
      <<"0">>,
      <<"1">> >>,
   \* a lone king without a safe square
   \*   k7/8/1Q6/8/8/8/8/K7 b - - 0 1
   << <<"k", "7", "/", "8", "/", "1", "Q", "6", "/", "8", "/", "8", "/", "8", "/", "8", "/", "K", "7">>,
      <<"b">>,
      <<"-">>,
      <<"-">>,
      <<"0">>,
      <<"1">> >>,
   \* a check that can be answered by capture, by interposition or by the king
   \*   4k3/8/8/8/7b/8/3N2R1/4K3 w - - 3 7
   << <<"4", "k", "3", "/", "8", "/", "8", "/", "8", "/", "7", "b", "/", "8", "/", "3", "N", "2", "R", "1", "/", "4", "K", "3">>,
      <<"w">>,
      <<"-">>,
      <<"-">>,
      <<"3">>,
      <<"7">> >>,
   \* a double push of the e-pawn would let the pawn on f4 capture en passant and open the fourth rank between rook and king
   \*   8/8/8/8/1k3p1R/8/4P3/4K3 w - - 0 1
   << <<"8", "/", "8", "/", "8", "/", "8", "/", "1", "k", "3", "p", "1", "R", "/", "8", "/", "4", "P", "3", "/", "4", "K", "3">>,
      <<"w">>,
      <<"-">>,
      <<"-">>,
      <<"0">>,
      <<"1">> >>,
   \* the same with a Black pawn on c4 that keeps the fourth rank closed
   \*   8/8/8/8/1kp2p1R/8/4P3/4K3 w - - 0 1
   << <<"8", "/", "8", "/", "8", "/", "8", "/", "1", "k", "p", "2", "p", "1", "R", "/", "8", "/", "4", "P", "3", "/", "4", "K", "3">>,
      <<"w">>,
      <<"-">>,
      <<"-">>,
      <<"0">>,
      <<"1">> >>,
   \* kings and rooks at home, a White pawn on a2, the Black rook on b8 attacks b1
   \*   1r2k2r/8/8/8/8/8/P7/R3K2R w KQk - 0 1
   << <<"1", "r", "2", "k", "2", "r", "/", "8", "/", "8", "/", "8", "/", "8", "/", "8", "/", "P", "7", "/", "R", "3", "K", "2", "R">>,
      <<"w">>,
      <<"K", "Q", "k">>,
      <<"-">>,
      <<"0">>,
      <<"1">> >>,
   \* the target e6 without a Black pawn on e5; the White pawn on d5 is listed before the White king
   \*   4k3/8/8/3P4/8/8/8/4K3 w - e6 0 1
   << <<"4", "k", "3", "/", "8", "/", "8", "/", "3", "P", "4", "/", "8", "/", "8", "/", "8", "/", "4", "K", "3">>,
      <<"w">>,
      <<"-">>,
      <<"e", "6">>,
      <<"0">>,
      <<"1">> >>,
   \* rejected: the king of the side that is not to move is attacked
   \*   4k3/8/8/8/8/8/8/4RK2 w - - 0 1
   << <<"4", "k", "3", "/", "8", "/", "8", "/", "8", "/", "8", "/", "8", "/", "8", "/", "4", "R", "K", "2">>,
      <<"w">>,
      <<"-">>,
      <<"-">>,
      <<"0">>,
      <<"1">> >>
  >>


Last(seq) == seq[Len(seq)]
Front(seq) == SubSeq(seq, 1, Len(seq) - 1)

\* The moves State::analyze lists for the side to move.
ListedMoves(s) == Range(listed_moves(analyze(s, s.side_to_move)))

\* The driver as constructed and left alone.
DriverIdle ==
  /\ pescado = State_default
  /\ output = <<>>
  /\ command = <<>>
  /\ previous = pescado
  /\ crashed = FALSE
  /\ overflow_checks = FALSE
  /\ sent = 0

\* No text has been handed to Fen::try_from on its own.
NoResult == [outcome |-> "None", fen |-> NoFen]

FenIdle ==
  /\ fen_sections = <<>>
  /\ fen_result = NoResult

Init ==
  \E i \in 1 .. Len(SeedFens) :
    \E parsed \in {Fen_try_from(SeedFens[i])} :
      /\ parsed.outcome = "Ok"
      /\ state = State_from(parsed.fen)
      /\ undoers = <<>>
      /\ saved = <<>>
      /\ last = [op |-> "load", lan |-> NoLan, origin |-> state]
      /\ DriverIdle
      /\ FenIdle

\* One iteration of the loop of Engine::perft up to the recursive call: a
\* listed move is made.  (The expect on the result aborts the program if
\* State::make_move fails.)
MakeMove ==
  /\ Len(undoers) < MaxPly
  /\ \E lan \in ListedMoves(state) :
       \E made \in {State_make_move(state, lan)} :
         /\ made.ok
         /\ state' = made.state
         /\ undoers' = Append(undoers, made.undoer)
         /\ saved' = Append(saved, state)
         /\ last' = [op |-> "make", lan |-> lan, origin |-> state]
         /\ UNCHANGED <<driver_vars, fen_vars>>

\* The rest of the iteration: the latest move is unmade.
UnmakeMove ==
  /\ undoers # <<>>
  /\ ~unmake_panics(state, Last(undoers))
  /\ state' = State_unmake_move(state, Last(undoers))
  /\ undoers' = Front(undoers)
  /\ saved' = Front(saved)
  /\ last' = [op |-> "unmake", lan |-> Last(undoers).move_undoer.lan,
              origin |-> Last(saved)]
  /\ UNCHANGED <<driver_vars, fen_vars>>

Next ==
  \/ MakeMove
  \/ UnmakeMove

Spec == Init /\ [][Next]_vars

(***************************************************************************)
(* Properties of the core.                                                 *)
(***************************************************************************)
\* The king of `color` stands on a square the other side attacks.
InDanger(pieces, color) ==
  find_king(pieces, color) \in generate_danger_zone(pieces, opponent(color))

\* A king's move of two files, which Board::make_move executes as a castle.
IsCastle(s, lan) ==
  s.board[lan.start].kind = "King" /\ abs(x(lan.end) - x(lan.start)) = 2

\* C1: whenever a move has been unmade, the State is exactly the State the
\* move was made from: all 64 squares, side_to_move, castling_ability,
\* en_passant_target, half_moves and full_moves.
C1_UnmakeRestores == last.op = "unmake" => state = last.origin

\* C2: after a listed move has been made, the king of the side that moved is
\* not in the danger zone of the new side to move.
C2_MoverNotInCheck ==
  last.op = "make" => ~InDanger(state.board, opponent(state.side_to_move))

\* The invariants of the data model: one king each, castling rights that
\* match king and rooks, an en passant target that lies behind a pawn which
\* has just made a double push and beside a pawn that can capture it, and a
\* side not to move that is not in check.
SatisfiesInvariants(s) ==
  LET target == s.en_passant_target
      mover == s.side_to_move
      back == IF mover = "White" THEN 0 - 1 ELSE 1
  IN  /\ \A c \in Colors :
           Cardinality({i \in Coordinates : s.board[i] = Piece(c, "King")}) = 1
      /\ castling_adds_up(s.board, s.castling_ability.bits)
      /\ target # NoCoordinate =>
           /\ y(target) = (IF mover = "White" THEN 2 ELSE 5)
           /\ s.board[target] = None
           /\ s.board[try_move(target, 0, 0 - back)] = None
           /\ s.board[try_move(target, 0, back)] = Piece(opponent(mover), "Pawn")
           /\ \E dx \in {0 - 1, 1} :
                /\ try_move(target, dx, back) # NoCoordinate
                /\ s.board[try_move(target, dx, back)] = Piece(mover, "Pawn")
      /\ ~InDanger(s.board, opponent(mover))

\* The pseudo-legal moves of the side to move, castles aside, whose execution
\* does not leave the mover's king attacked.
LegalNonCastling(s) ==
  {lan \in Range(Flatten([i \in 1 .. 64 |->
                            generate_pseudo_legal_moves(s, s.side_to_move)[i - 1]])) :
     /\ ~IsCastle(s, lan)
     /\ ~InDanger(State_make_move(s, lan).state.board, s.side_to_move)}

ListedNonCastling(s) == {lan \in ListedMoves(s) : ~IsCastle(s, lan)}

\* C3: in a position that satisfies the invariants of the data model, the
\* non-castling moves State::analyze lists for the side to move are exactly
\* the pseudo-legal moves that do not leave the mover's king attacked.
C3_ListedIsLegal ==
  SatisfiesInvariants(state) => ListedNonCastling(state) = LegalNonCastling(state)

\* C4: for either colour, when State::analyze lists no move the
\* classification is Stalemate if the king is not in the danger zone and
\* Checkmate if it is.
C4_NoMoveClassified ==
  \A c \in Colors :
    \A analysis \in {analyze(state, c)} :
        (analysis.king_safety # "Panic" /\ TotalMovesOf(analysis) = 0) =>
          analysis.king_safety =
            (IF InDanger(state.board, c) THEN "Checkmate" ELSE "Stalemate")

\* C5: for either colour, when State::analyze classifies the position as
\* Checkmate or Stalemate it lists no move at all.
C5_MateListsNothing ==
  \A c \in Colors :
    \A analysis \in {analyze(state, c)} :
        analysis.king_safety \in {"Checkmate", "Stalemate"} => TotalMovesOf(analysis) = 0

\* C9: a castling right that is set has its king on e1 (e8) and its rook on
\* the corner of that wing, in every state.
C9_RightsMatchBoard ==
  LET bits == state.castling_ability.bits
      board == state.board
  IN  /\ WHITE_KINGSIDE \in bits =>
           board[E1] = Piece("White", "King") /\ board[H1] = Piece("White", "Rook")
      /\ WHITE_QUEENSIDE \in bits =>
           board[E1] = Piece("White", "King") /\ board[A1] = Piece("White", "Rook")
      /\ BLACK_KINGSIDE \in bits =>
           board[E8] = Piece("Black", "King") /\ board[H8] = Piece("Black", "Rook")
      /\ BLACK_QUEENSIDE \in bits =>
           board[E8] = Piece("Black", "King") /\ board[A8] = Piece("Black", "Rook")

\* A pawn's capture of the rook on a8 with promotion has cleared Black's
\* queenside right and left the kingside right.
C9_Witness ==
  /\ last.op = "make"
  /\ last.lan.end = A8 /\ last.lan.promotion # "None"
  /\ last.origin.board[A8] = Piece("Black", "Rook")
  /\ BLACK_QUEENSIDE \in last.origin.castling_ability.bits
  /\ state.castling_ability.bits \cap {BLACK_KINGSIDE, BLACK_QUEENSIDE} = {BLACK_KINGSIDE}

\* The move just made was a pawn's double push.
DoublePush ==
  /\ last.origin.board[last.lan.start].kind = "Pawn"
  /\ x(last.lan.end) = x(last.lan.start)
  /\ abs(y(last.lan.end) - y(last.lan.start)) = 2

\* C10: after a move has been made, an en passant target is set only if the
\* move was a pawn's double push; the target is then the square the pawn
\* skipped (rank 3 after a White push, rank 6 after a Black push) and a pawn
\* of the new side to move stands beside the pushed pawn.
C10_TargetOnlyAfterDoublePush ==
  (last.op = "make" /\ state.en_passant_target # NoCoordinate) =>
    /\ DoublePush
    /\ 2 * y(state.en_passant_target) = y(last.lan.start) + y(last.lan.end)
    /\ x(state.en_passant_target) = x(last.lan.end)
    /\ y(state.en_passant_target) = (IF state.side_to_move = "Black" THEN 5 ELSE 2)
    /\ \E dx \in {0 - 1, 1} :
         /\ try_move(last.lan.end, dx, 0) # NoCoordinate
         /\ state.board[try_move(last.lan.end, dx, 0)] = Piece(state.side_to_move, "Pawn")

\* A double push has left an en passant target.
C10_Witness ==
  last.op = "make" /\ DoublePush /\ state.en_passant_target # NoCoordinate

\* The pawns of the side to move that stand beside the pawn just pushed.
AdjacentPawns ==
  {c \in {try_move(last.lan.end, 0 - 1, 0), try_move(last.lan.end, 1, 0)} \ {NoCoordinate} :
     state.board[c] = Piece(state.side_to_move, "Pawn")}

\* On the rank of the pushed pawn, that pawn and the one pawn beside it are
\* the only pieces between the king of the side to move and a rook or queen
\* of the side that pushed.
Exposed ==
  /\ Cardinality(AdjacentPawns) = 1
  /\ \E k, r \in {c \in Coordinates : y(c) = y(last.lan.end)} :
       /\ state.board[k] = Piece(state.side_to_move, "King")
       /\ state.board[r].color = opponent(state.side_to_move)
       /\ state.board[r].kind \in {"Rook", "Queen"}
       /\ {c \in Coordinates :
             /\ y(c) = y(k)
             /\ (x(k) < x(c) /\ x(c) < x(r)) \/ (x(r) < x(c) /\ x(c) < x(k))
             /\ state.board[c] # None}
            = {last.lan.end} \cup AdjacentPawns

C11_WitnessSet ==
  /\ last.op = "make" /\ DoublePush /\ Cardinality(AdjacentPawns) = 1
  /\ \E k \in Coordinates :
       y(k) = y(last.lan.end) /\ state.board[k] = Piece(state.side_to_move, "King")
  /\ ~Exposed /\ state.en_passant_target # NoCoordinate

\* The squares of a board that hold the king of a color.
Kings(board, color) == {c \in Coordinates : board[c] = Piece(color, "King")}

\* C12: in every State reached from an accepted FEN by listed moves the board
\* holds exactly one White king and exactly one Black king.
C12_OneKingEach ==
  \A color \in Colors : Cardinality(Kings(state.board, color)) = 1

\* The square a king of a color starts on.
Home(color) == IF color = "White" THEN E1 ELSE E8

\* The castling move of a color to a wing: dx = 1 king-side, -1 queen-side.
CastleLan(color, dx) == Lan(Home(color), try_move(Home(color), 2 * dx, 0), "None")

\* The squares between the king and the rook of a wing.
Between(color, dx) ==
  {c \in Coordinates :
     /\ y(c) = y(Home(color))
     /\ IF dx = 1 THEN x(c) > x(Home(color)) /\ x(c) < 7
        ELSE x(c) < x(Home(color)) /\ x(c) > 0}

\* Right set, squares between king and rook empty, and the king's square,
\* the square it crosses and the square it lands on not attacked.
MayCastle(s, color, dx) ==
  /\ s.castling_ability.some
  /\ (IF dx = 1 THEN king_side_of(color) ELSE queen_side_of(color)) \in s.castling_ability.bits
  /\ \A c \in Between(color, dx) : s.board[c] = None
  /\ \A i \in 0 .. 2 :
       try_move(Home(color), i * dx, 0) \notin generate_danger_zone(s.board, opponent(color))

\* C15: State::analyze lists a castling move of the side to move exactly when
\* the right is set, the squares between king and rook are empty, and the
\* king's square, the square it crosses and the square it lands on are not
\* in the opponent's danger zone; an attacked b-file square does not matter.
C15_CastlingListed ==
  \A dx \in {0 - 1, 1} :
    (/\ IsCastle(state, CastleLan(state.side_to_move, dx))
     /\ CastleLan(state.side_to_move, dx) \in ListedMoves(state))
      <=> MayCastle(state, state.side_to_move, dx)

\* Queen-side castling is listed although the b-file square is attacked,
\* while the king-side castling is not listed because the f-file square is.
C15_Witness ==
  \E color \in Colors :
    /\ state.side_to_move = color
    /\ CastleLan(color, 0 - 1) \in ListedMoves(state)
    /\ try_move(Home(color), 0 - 3, 0) \in generate_danger_zone(state.board, opponent(color))
    /\ king_side_of(color) \in state.castling_ability.bits
    /\ \A c \in Between(color, 1) : state.board[c] = None
    /\ try_move(Home(color), 1, 0) \in generate_danger_zone(state.board, opponent(color))
    /\ CastleLan(color, 1) \notin ListedMoves(state)

\* The latest operation made a castling move.
CastleMade == last.op = "make" /\ IsCastle(last.origin, last.lan)

\* The castling flags of a color.
FlagsOf(color) == {king_side_of(color), queen_side_of(color)}

\* The square on the rank of the king's start with file x.
OnKingsRank(file) == y(last.lan.start) * BOARD_WIDTH + file

\* C16: after a castling move the king stands two files from its start, the
\* rook has gone from the h-corner to the f-file (king-side) or from the
\* a-corner to the d-file (queen-side) of the mover's back rank, every other
\* square is as before, the mover has no castling right left and the
\* opponent's rights are as before.
C16_CastleMoves ==
  CastleMade =>
    LET mover == last.origin.side_to_move
        king_side == x(last.lan.end) > x(last.lan.start)
        corner == OnKingsRank(IF king_side THEN 7 ELSE 0)
        beside == OnKingsRank(IF king_side THEN 5 ELSE 3)
    IN  /\ y(last.lan.start) = (IF mover = "White" THEN 7 ELSE 0)
        /\ y(last.lan.end) = y(last.lan.start)
        /\ abs(x(last.lan.end) - x(last.lan.start)) = 2
        /\ last.origin.board[last.lan.start] = Piece(mover, "King")
        /\ last.origin.board[corner] = Piece(mover, "Rook")
        /\ state.board[last.lan.end] = Piece(mover, "King")
        /\ state.board[beside] = Piece(mover, "Rook")
        /\ state.board[last.lan.start] = None
        /\ state.board[corner] = None
        /\ \A c \in Coordinates \ {last.lan.start, last.lan.end, corner, beside} :
             state.board[c] = last.origin.board[c]
        /\ state.castling_ability.bits \cap FlagsOf(mover) = {}
        /\ state.castling_ability.bits \cap FlagsOf(opponent(mover))
             = last.origin.castling_ability.bits \cap FlagsOf(opponent(mover))

\* A queen-side castle has been made while the opponent had castling rights.
C16_Witness ==
  /\ CastleMade
  /\ x(last.lan.end) < x(last.lan.start)
  /\ state.castling_ability.bits \cap FlagsOf(state.side_to_move) # {}

\* C17: after a move has been made, half_moves is 0 when the moved piece was
\* a pawn or the destination square was occupied and the previous value plus
\* 1 otherwise; full_moves is one more than before when Black moved and the
\* same when White moved; side_to_move is the other color.
C17_Clocks ==
  last.op = "make" =>
    /\ state.half_moves =
         (IF \/ last.origin.board[last.lan.start].kind = "Pawn"
             \/ last.origin.board[last.lan.end] # None
          THEN 0 ELSE last.origin.half_moves + 1)
    /\ state.full_moves =
         (IF last.origin.side_to_move = "Black"
          THEN last.origin.full_moves + 1 ELSE last.origin.full_moves)
    /\ state.side_to_move = opponent(last.origin.side_to_move)
    /\ last.origin.side_to_move \in Colors

\* A pawn has captured en passant, onto an empty square: the clock is at 0.
C17_WitnessEnPassant ==
  /\ last.op = "make"
  /\ last.origin.board[last.lan.start].kind = "Pawn"
  /\ last.origin.board[last.lan.end] = None
  /\ x(last.lan.end) # x(last.lan.start)
  /\ state.half_moves = 0

\* Black has made a quiet move with a piece: both counters went up.
C17_Witness ==
  /\ last.op = "make"
  /\ last.origin.side_to_move = "Black"
  /\ last.origin.half_moves > 0
  /\ state.half_moves = last.origin.half_moves + 1
  /\ state.full_moves = last.origin.full_moves + 1

\* How often a move occurs in the list of the listed moves.
TimesListed(listed, lan) == Cardinality({i \in 1 .. Len(listed) : listed[i] = lan})

LastRanks == {0, BOARD_HEIGHT - 1}

\* C18: a listed pawn move that reaches the last rank is listed once with
\* each of the promotions Knight, Bishop, Rook and Queen and never without a
\* promotion, a listed pawn move to any other rank carries no promotion, and
\* no pawn stands on rank 1 or rank 8.
C18_Promotions ==
  /\ \A listed \in {listed_moves(analyze(state, state.side_to_move))} :
       \A i \in 1 .. Len(listed) :
         state.board[listed[i].start].kind = "Pawn" =>
           IF y(listed[i].end) \in LastRanks
           THEN /\ listed[i].promotion \in {"Knight", "Bishop", "Rook", "Queen"}
                /\ \A kind \in {"Knight", "Bishop", "Rook", "Queen"} :
                     TimesListed(listed, Lan(listed[i].start, listed[i].end, kind)) = 1
                /\ TimesListed(listed, Lan(listed[i].start, listed[i].end, "None")) = 0
           ELSE listed[i].promotion = "None"
  /\ \A c \in Coordinates :
       state.board[c].kind = "Pawn" => y(c) \notin LastRanks

\* A pawn has captured onto the last rank and has become a knight.
C18_Witness ==
  /\ last.op = "make"
  /\ last.origin.board[last.lan.start].kind = "Pawn"
  /\ last.origin.board[last.lan.end] # None
  /\ y(last.lan.end) \in LastRanks
  /\ last.lan.promotion = "Knight"
  /\ state.board[last.lan.end] = Piece(last.origin.side_to_move, "Knight")

\* The sum, over the listed moves first .. last of a State, of the count of
\* Engine::perft at depth - 1 from the State after the move.
RECURSIVE LeafSum(_, _, _, _, _)
LeafSum(s, listed, first, last_index, depth) ==
  IF first > last_index THEN 0
  ELSE IF first = last_index
  THEN perft(State_make_move(s, listed[first]).state, depth - 1).total
  ELSE LeafSum(s, listed, first, (first + last_index) \div 2, depth)
         + LeafSum(s, listed, (first + last_index) \div 2 + 1, last_index, depth)

MaxPerft == 2

\* C20: Engine::perft of a loaded position returns 1 at depth 0 and, at a
\* depth d > 0, the sum over the moves State::analyze lists for the side to
\* move of Engine::perft at depth d - 1 of the position after the move.
C20_PerftSumsListed ==
  last.op = "load" =>
    /\ perft(state, 0) = [panic |-> FALSE, state |-> state, total |-> 1]
    /\ \A depth \in 1 .. MaxPerft :
         \A counted \in {perft(state, depth)},
            listed \in {listed_moves(analyze(state, state.side_to_move))} :
           /\ ~counted.panic
           /\ counted.total = LeafSum(state, listed, 1, Len(listed), depth)

(***************************************************************************)
(* The driver: commands are sent to a Pescado one after the other.         *)
(***************************************************************************)
MaxCommands == 2
MaxDepth == 1

\* go depth <n>
GoDepthCommand(n) == GO \o <<" ">> \o DEPTH \o <<" ">> \o usize_to_string(n)

\* Position commands whose FEN has its en passant target on the a-file or
\* the h-file.
EdgeTargetCommands ==
  {
    \* Black to move, target a3, a Black pawn on b4 beside the White pawn on a4
    \*   position fen 4k3/8/8/8/Pp6/8/8/4K3 b - a3 0 1
    <<"p", "o", "s", "i", "t", "i", "o", "n", " ", "f", "e", "n", " ", "4", "k", "3", "/", "8", "/", "8", "/", "8", "/", "P", "p", "6", "/", "8", "/", "8", "/", "4", "K", "3", " ", "b", " ", "-", " ", "a", "3", " ", "0", " ", "1">>,
    \* White to move, target h6, no White pawn on g5
    \*   position fen 4k3/8/8/7p/8/8/8/4K3 w - h6 0 1
    <<"p", "o", "s", "i", "t", "i", "o", "n", " ", "f", "e", "n", " ", "4", "k", "3", "/", "8", "/", "8", "/", "7", "p", "/", "8", "/", "8", "/", "8", "/", "4", "K", "3", " ", "w", " ", "-", " ", "h", "6", " ", "0", " ", "1">>
  }

\* go perft <n>
GoPerftCommand(n) == GO \o <<" ">> \o PERFT \o <<" ">> \o usize_to_string(n)

\* A position whose en passant target e6 has no Black pawn in front of it.
\*   position fen 4k3/8/8/3P4/8/8/8/4K3 w - e6 0 1
EmptyTargetCommand ==
  <<"p", "o", "s", "i", "t", "i", "o", "n", " ", "f", "e", "n", " ", "4", "k", "3", "/", "8", "/", "8", "/", "3", "P", "4", "/", "8", "/", "8", "/", "8", "/", "4", "K", "3", " ", "w", " ", "-", " ", "e", "6", " ", "0", " ", "1">>

\* The command texts the driver is sent.
\* go commands Command::try_from turns down.
RejectedGoCommands ==
  {
    \* go   (the subcommand is missing)
    << "g", "o" >>,
    \* go foo   (the subcommand is unknown)
    << "g", "o", " ", "f", "o", "o" >>,
    \* go depth   (the depth is missing)
    << "g", "o", " ", "d", "e", "p", "t", "h" >>,
    \* go perft   (the depth is missing)
    << "g", "o", " ", "p", "e", "r", "f", "t" >>,
    \* go depth 256   (the depth is too large for a u8)
    << "g", "o", " ", "d", "e", "p", "t", "h", " ", "2", "5", "6" >>,
    \* go perft -1   (the depth is negative)
    << "g", "o", " ", "p", "e", "r", "f", "t", " ", "-", "1" >>
  }

Commands ==
  { GoDepthCommand(n) : n \in 0 .. MaxDepth } \cup EdgeTargetCommands \cup RejectedGoCommands \cup
  { GoPerftCommand(n) : n \in 0 .. MaxPerft } \cup { EmptyTargetCommand } \cup
  {
    \* uci
    << "u", "c", "i" >>,
    \* isready
    << "i", "s", "r", "e", "a", "d", "y" >>,
    \* quit
    << "q", "u", "i", "t" >>,
    \* d
    << "d" >>,
    \* flip
    << "f", "l", "i", "p" >>,
    \* xyz   (no command)
    << "x", "y", "z" >>,
    \* go perft 1
    << "g", "o", " ", "p", "e", "r", "f", "t", " ", "1" >>,
    \* go depth x   (the depth is no number)
    << "g", "o", " ", "d", "e", "p", "t", "h", " ", "x" >>,
    \* position   (the subcommand is missing)
    << "p", "o", "s", "i", "t", "i", "o", "n" >>,
    \* position foo   (the subcommand is unknown)
    << "p", "o", "s", "i", "t", "i", "o", "n", " ", "f", "o", "o" >>,
    \* position startpos moves e2e3 e7e6 e1e2 e8e7   (both kings move: every castling right is lost)
    << "p", "o", "s", "i", "t", "i", "o", "n", " ", "s", "t", "a", "r", "t", "p", "o", "s",
       " ", "m", "o", "v", "e", "s", " ", "e", "2", "e", "3", " ", "e", "7", "e", "6", " ",
       "e", "1", "e", "2", " ", "e", "8", "e", "7" >>,
    \* position startpos moves f2f3 e7e5 g2g4 d8h4   (White is checkmated)
    << "p", "o", "s", "i", "t", "i", "o", "n", " ", "s", "t", "a", "r", "t", "p", "o", "s",
       " ", "m", "o", "v", "e", "s", " ", "f", "2", "f", "3", " ", "e", "7", "e", "5", " ",
       "g", "2", "g", "4", " ", "d", "8", "h", "4" >>,
    \* position startpos moves h2h3 b7b5 h3h4 b5b4 a2a4   (a double push on the a-file next to a Black pawn)
    << "p", "o", "s", "i", "t", "i", "o", "n", " ", "s", "t", "a", "r", "t", "p", "o", "s",
       " ", "m", "o", "v", "e", "s", " ", "h", "2", "h", "3", " ", "b", "7", "b", "5", " ",
       "h", "3", "h", "4", " ", "b", "5", "b", "4", " ", "a", "2", "a", "4" >>,
    \* position startpos moves e2e4 e2e4   (the second move is not listed)
    << "p", "o", "s", "i", "t", "i", "o", "n", " ", "s", "t", "a", "r", "t", "p", "o", "s",
       " ", "m", "o", "v", "e", "s", " ", "e", "2", "e", "4", " ", "e", "2", "e", "4" >>,
    \* position startpos moves e2e4 zz   (the second move is no Lan)
    << "p", "o", "s", "i", "t", "i", "o", "n", " ", "s", "t", "a", "r", "t", "p", "o", "s",
       " ", "m", "o", "v", "e", "s", " ", "e", "2", "e", "4", " ", "z", "z" >>,
    \* position fen 4k3/8/8/8/8/8/8/4RK2 w K - 0 1   (a castling right without king and rook in place)
    << "p", "o", "s", "i", "t", "i", "o", "n", " ", "f", "e", "n", " ", "4", "k", "3", "/",
       "8", "/", "8", "/", "8", "/", "8", "/", "8", "/", "8", "/", "4", "R", "K", "2", " ",
       "w", " ", "K", " ", "-", " ", "0", " ", "1" >>,
    \* position fen k7/8/1K6/8/8/8/8/7R w - - 0 1   (White mates in one)
    << "p", "o", "s", "i", "t", "i", "o", "n", " ", "f", "e", "n", " ", "k", "7", "/", "8",
       "/", "1", "K", "6", "/", "8", "/", "8", "/", "8", "/", "8", "/", "7", "R", " ", "w",
       " ", "-", " ", "-", " ", "0", " ", "1" >>,
    \* position fen 7k/8/8/8/7p/7P/2q5/K7 w - - 0 1   (White has no move and is not attacked)
    << "p", "o", "s", "i", "t", "i", "o", "n", " ", "f", "e", "n", " ", "7", "k", "/", "8",
       "/", "8", "/", "8", "/", "7", "p", "/", "7", "P", "/", "2", "q", "5", "/", "K", "7",
       " ", "w", " ", "-", " ", "-", " ", "0", " ", "1" >>
  }

CoreIdle ==
  /\ state = State_default
  /\ undoers = <<>>
  /\ saved = <<>>
  /\ last = [op |-> "load", lan |-> NoLan, origin |-> State_default]

\* Pescado::new, in either build.
InitDriver ==
  /\ pescado = State_default
  /\ output = <<>>
  /\ command = <<>>
  /\ previous = pescado
  /\ crashed = FALSE
  /\ overflow_checks \in BOOLEAN
  /\ sent = 0
  /\ CoreIdle
  /\ FenIdle

\* Pescado::send(command).  A panic ends the program: no command follows.
Send ==
  /\ ~crashed
  /\ sent < MaxCommands
  /\ \E value \in Commands :
       \E result \in {send(pescado, value, overflow_checks)} :
         /\ pescado' = result.state
         /\ output' = result.output
         /\ crashed' = result.panic
         /\ command' = value
         /\ previous' = pescado
         /\ sent' = sent + 1
  /\ UNCHANGED <<overflow_checks, state, undoers, saved, last, fen_vars>>

NextDriver == Send

SpecDriver == InitDriver /\ [][NextDriver]_vars

(***************************************************************************)
(* Properties of the driver.                                               *)
(***************************************************************************)
\* The latest command was `position startpos [moves ...]` and was accepted:
\* the driver's State is the starting position after listed moves.
AcceptedStartpos ==
  /\ ~crashed
  /\ starts_with(command, POSITION \o <<" ">> \o STARTPOS)
  /\ Command_try_from(command).outcome = "Ok"

\* State::from(Fen::try_from(String::from(P))): the text is split at white
\* space again before it is parsed.
RoundTrip(P) == Fen_try_from(split_whitespace(Fen_to_string(Fen_from(P))))

\* C6: a State reached from the starting position by listed moves is
\* serialised to a FEN text that Fen::try_from accepts, and the State built
\* from the parsed Fen equals it.
C6_FenRoundTrip ==
  AcceptedStartpos =>
    \A parsed \in {RoundTrip(pescado)} :
      parsed.outcome = "Ok" /\ State_from(parsed.fen) = pescado

\* C7: the command `go depth n` with n >= 1 hands the callback n info lines
\* of depth 1, ..., n in that order and then one bestmove line, and the
\* program runs on; with n = 0 it hands the callback nothing.
C7_GoDepthLines ==
  \A n \in 0 .. MaxDepth :
    (sent > 0 /\ command = GoDepthCommand(n)) =>
      /\ ~crashed
      /\ Len(output) = (IF n = 0 THEN 0 ELSE n + 1)
      /\ \A i \in 1 .. Len(output) :
           IF i <= n THEN output[i].kind = "info" /\ output[i].info.depth = i
           ELSE output[i].kind = "bestmove"

\* The latest command was a position command that Command::try_from
\* answered with an error.
RejectedPosition ==
  /\ sent > 0
  /\ starts_with(command, POSITION)
  /\ Command_try_from(command).outcome = "Err"

\* C8: after a rejected position command the callback has received exactly
\* one line, the Error line with the message of the rejection, and the
\* driver's State is the State it had before the command.
C8_RejectedPositionKeepsState ==
  RejectedPosition =>
    /\ ~crashed
    /\ output = <<ErrorLine(Command_try_from(command).message)>>
    /\ pescado = previous

\* A move sequence whose second move is not listed has been rejected after
\* an earlier command had moved the driver away from the starting position.
C8_Witness ==
  /\ RejectedPosition
  /\ output = <<ErrorLine("A move in the given sequence is not legal.")>>
  /\ previous # State_default
  /\ pescado = previous

(***************************************************************************)
(* Fen::try_from on its own: a text is chosen, then parsed.                *)
(***************************************************************************)

\* The piece placements of the texts.
FenPlacements ==
  {
   \* a White pawn on d2
   \*   4k3/8/8/8/8/8/3P4/4K3
   <<"4", "k", "3", "/", "8", "/", "8", "/", "8", "/", "8", "/", "8", "/", "3", "P", "4", "/", "4", "K", "3">>,
   \* a Black pawn on d4 beside a White pawn on e4
   \*   4k3/8/8/8/3pP3/8/8/4K3
   <<"4", "k", "3", "/", "8", "/", "8", "/", "8", "/", "3", "p", "P", "3", "/", "8", "/", "8", "/", "4", "K", "3">>,
   \* a White pawn on d5 beside a Black pawn on e5
   \*   4k3/8/8/3Pp3/8/8/8/4K3
   <<"4", "k", "3", "/", "8", "/", "8", "/", "3", "P", "p", "3", "/", "8", "/", "8", "/", "8", "/", "4", "K", "3">>,
   \* kings and rooks on their first squares
   \*   r3k2r/8/8/8/8/8/8/R3K2R
   <<"r", "3", "k", "2", "r", "/", "8", "/", "8", "/", "8", "/", "8", "/", "8", "/", "8", "/", "R", "3", "K", "2", "R">>,
   \* the White king has moved to f1, a White rook attacks the Black king
   \*   4k3/8/8/8/8/8/8/4RK2
   <<"4", "k", "3", "/", "8", "/", "8", "/", "8", "/", "8", "/", "8", "/", "8", "/", "4", "R", "K", "2">>,
   \* no White king
   \*   4k3/8/8/8/8/8/8/8
   <<"4", "k", "3", "/", "8", "/", "8", "/", "8", "/", "8", "/", "8", "/", "8", "/", "8">>,
   \* two White kings
   \*   4k3/8/8/8/8/8/8/3KK3
   <<"4", "k", "3", "/", "8", "/", "8", "/", "8", "/", "8", "/", "8", "/", "8", "/", "3", "K", "K", "3">>,
   \* a Black pawn on b4 beside a White pawn on a4
   \*   4k3/8/8/8/Pp6/8/8/4K3
   <<"4", "k", "3", "/", "8", "/", "8", "/", "8", "/", "P", "p", "6", "/", "8", "/", "8", "/", "4", "K", "3">>,
   \* a White pawn on g5 beside a Black pawn on h5
   \*   4k3/8/8/6Pp/8/8/8/4K3
   <<"4", "k", "3", "/", "8", "/", "8", "/", "6", "P", "p", "/", "8", "/", "8", "/", "8", "/", "4", "K", "3">>
  }

FenSides == {<<"w">>, <<"b">>}
FenCastlings == {<<"-">>, <<"K">>, <<"Q">>, <<"k", "q">>, <<"K", "Q", "k", "q">>}
FenTargets == {<<"-">>, <<"e", "3">>, <<"e", "6">>, <<"a", "3">>, <<"h", "6">>, <<"e", "4">>}

\* The texts: six sections each, half-move clock 0 and move number 1.
FenInputs ==
  {<<placement, side, castling, target, <<"0">>, <<"1">>>> :
     placement \in FenPlacements, side \in FenSides,
     castling \in FenCastlings, target \in FenTargets}

InitFen ==
  /\ fen_sections \in FenInputs
  /\ fen_result = NoResult
  /\ CoreIdle
  /\ DriverIdle

\* Fen::try_from(text).
ParseFen ==
  /\ fen_result = NoResult
  /\ fen_result' = Fen_try_from(fen_sections)
  /\ UNCHANGED <<fen_sections, core_vars, driver_vars>>

NextFen == ParseFen

SpecFen == InitFen /\ [][NextFen]_vars

\* What a text of six sections describes.
DescribedBy(sections) ==
  [board |-> Board_from(sections[1]),
   side_to_move |-> Color_try_from(sections[2]),
   bits |-> IF sections[3] = <<"-">> THEN {}
            ELSE CastlingAbility_try_from(sections[3]).bits,
   en_passant_target |-> IF sections[4] = <<"-">> THEN NoCoordinate
                         ELSE Coordinate_try_from(sections[4])]

Described == DescribedBy(fen_sections)

OneKingPerColor(given) ==
  \A color \in Colors : Cardinality(Kings(given.board, color)) = 1

RightsHaveKingAndRook(given) ==
  /\ WHITE_KINGSIDE \in given.bits =>
       given.board[E1] = Piece("White", "King") /\ given.board[H1] = Piece("White", "Rook")
  /\ WHITE_QUEENSIDE \in given.bits =>
       given.board[E1] = Piece("White", "King") /\ given.board[A1] = Piece("White", "Rook")
  /\ BLACK_KINGSIDE \in given.bits =>
       given.board[E8] = Piece("Black", "King") /\ given.board[H8] = Piece("Black", "Rook")
  /\ BLACK_QUEENSIDE \in given.bits =>
       given.board[E8] = Piece("Black", "King") /\ given.board[A8] = Piece("Black", "Rook")

\* The squares a pawn of the side to move captures onto the target from:
\* an adjacent file, one rank behind the target.
Capturers(given) ==
  {c \in Coordinates :
     /\ abs(x(c) - x(given.en_passant_target)) = 1
     /\ y(c) = y(given.en_passant_target) + (IF given.side_to_move = "White" THEN 1 ELSE 0 - 1)
     /\ given.board[c] = Piece(given.side_to_move, "Pawn")}

\* Rank 6 is y = 2 and rank 3 is y = 5.
TargetFitsSide(given) ==
  given.en_passant_target # NoCoordinate =>
    /\ y(given.en_passant_target) = (IF given.side_to_move = "White" THEN 2 ELSE 5)
    /\ Capturers(given) # {}

OtherKingSafe(given) ==
  \A k \in Kings(given.board, opponent(given.side_to_move)) :
    k \notin generate_danger_zone(given.board, given.side_to_move)

Sound(given) ==
  /\ OneKingPerColor(given)
  /\ RightsHaveKingAndRook(given)
  /\ TargetFitsSide(given)
  /\ OtherKingSafe(given)

\* C13: a text Fen::try_from accepts describes a position with one king per
\* color, with king and rook at home for every castling right, with an en
\* passant target on rank 6 for White to move and on rank 3 for Black to move
\* that a pawn of the side to move can capture onto, and with the king of the
\* side not to move unattacked; a text that describes anything else is
\* rejected with an error.
C13_AcceptedIsSound ==
  fen_result # NoResult =>
    /\ fen_result.outcome = "Ok" => Sound(Described)
    /\ ~Sound(Described) => fen_result.outcome = "Err"

\* The latest command was a position command with a FEN whose en passant
\* target is on the a-file or the h-file.
EdgeTargetSent == sent > 0 /\ command \in EdgeTargetCommands

\* The six sections of the FEN of the latest command.
CommandFen == SubSeq(split_whitespace(command), 3, 8)

\* C14: a position command whose FEN has its en passant target on the a-file
\* or the h-file never aborts the program: when a pawn of the side to move
\* stands on the one adjacent file in position to capture, the driver takes
\* the described position; otherwise the callback receives one Error line and
\* the driver keeps its State.
C14_EdgeTargetHandled ==
  EdgeTargetSent =>
    /\ ~crashed
    /\ IF Capturers(DescribedBy(CommandFen)) # {}
       THEN /\ output = <<>>
            /\ pescado.board = DescribedBy(CommandFen).board
            /\ pescado.en_passant_target = DescribedBy(CommandFen).en_passant_target
       ELSE /\ Len(output) = 1
            /\ output[1].kind = "Error"
            /\ pescado = previous

(***************************************************************************)
(* Board::make_move on its own: any move is handed to the board of a       *)
(* loaded position, listed or not.                                         *)
(***************************************************************************)

\* The moves handed to the board: from any square to a neighbouring square,
\* without a promotion or with one.
Neighbours(start) ==
  {try_move(start, dx, dy) : dx \in {0 - 1, 0, 1}, dy \in {0 - 1, 0, 1}}
    \ {NoCoordinate, start}

BoardLans ==
  UNION {{Lan(start, end, promotion) :
            end \in Neighbours(start), promotion \in {"None", "Knight", "Queen"}} :
         start \in Coordinates}

\* Board::make_move(lan) on the board of the loaded position.
BoardMakeMove ==
  /\ last.op = "load"
  /\ \E lan \in BoardLans :
       \E moved \in {Board_make_move(state.board, lan)} :
         /\ state' = [state EXCEPT !.board = moved.pieces]
         /\ last' = [op |-> IF moved.ok THEN "board" ELSE "board error",
                     lan |-> lan, origin |-> state]
  /\ UNCHANGED <<undoers, saved, driver_vars, fen_vars>>

NextBoard == BoardMakeMove

SpecBoard == Init /\ [][NextBoard]_vars

\* Board::make_move has returned, with or without an error.
BoardMoved == last.op \in {"board", "board error"}

\* C19: Board::make_move returns an error and leaves the 64 squares as they
\* were when the source square is empty, and when the move carries a
\* promotion and the piece on the source square is a knight, a bishop, a
\* rook, a queen or a king.
C19_BoardErrors ==
  BoardMoved =>
    LET piece == last.origin.board[last.lan.start]
    IN  (\/ piece = None
         \/ /\ last.lan.promotion # "None"
            /\ piece.kind \in {"Knight", "Bishop", "Rook", "Queen", "King"})
          => last.op = "board error" /\ state.board = last.origin.board

(***************************************************************************)
(* go perft.                                                               *)
(***************************************************************************)

\* The sum of the counts of the entries first .. last of a perft report.
RECURSIVE CountSum(_, _, _)
CountSum(entries, first, last_index) ==
  IF first > last_index THEN 0
  ELSE IF first = last_index THEN entries[first][2]
  ELSE CountSum(entries, first, (first + last_index) \div 2)
         + CountSum(entries, (first + last_index) \div 2 + 1, last_index)

\* The latest command was `go perft n`.
GoPerftSent(n) == sent > 0 /\ command = GoPerftCommand(n)

\* C21: `go perft n` with n >= 1 reports one entry per move State::analyze
\* lists for the driver's position, in the listed order, each with the count
\* of Engine::perft at depth n - 1 of the position after that move, and a
\* total that is the sum of the reported counts and Engine::perft of the
\* position at depth n.
C21_PerftReport ==
  \A n \in 1 .. MaxPerft :
    GoPerftSent(n) =>
      \A listed \in {listed_moves(analyze(previous, previous.side_to_move))} :
        /\ ~crashed
        /\ Len(output) = 1
        /\ output[1].kind = "perft"
        /\ Len(output[1].entries) = Len(listed)
        /\ \A i \in 1 .. Len(listed) :
             /\ output[1].entries[i][1] = Lan_to_string(listed[i])
             /\ output[1].entries[i][2]
                  = perft(State_make_move(previous, listed[i]).state, n - 1).total
        /\ output[1].total = CountSum(output[1].entries, 1, Len(listed))
        /\ output[1].total = perft(previous, n).total

\* ---------------------------------------------------------------------------
\* The static score
\* ---------------------------------------------------------------------------

\* The king of `color` is attacked and its side can still move.
InCheck(given, color) == analyze(given, color).king_safety = "Check"

\* C23: the 75 points for a check are added to the score of the side that
\* gives the check: to a side's score exactly when the other side's king is
\* attacked and that other side is not mated.
C23_BonusToChecker ==
  \A color \in Colors :
    check_bonus(analyze(state, color)) =
      (IF InCheck(state, opponent(color)) THEN 75 ELSE 0)

\* ---------------------------------------------------------------------------
\* The driver's position
\* ---------------------------------------------------------------------------

\* C24: after any sequence of commands the king of the side not to move in
\* the driver's position is not attacked by the side to move.
C24_WaitingKingSafe ==
  (sent > 0 /\ ~crashed) => ~InDanger(pescado.board, opponent(pescado.side_to_move))

\* ---------------------------------------------------------------------------
\* go commands that are turned down
\* ---------------------------------------------------------------------------

\* The word is the decimal text of an integer in 0 .. 255.
IsU8Text(word) == \E n \in 0 .. 255 : word = usize_to_string(n)

\* A go command whose subcommand is missing or unknown, or whose depth is
\* missing or no integer in 0 .. 255.
MalformedGo(value) ==
  LET words == split_whitespace(value)
  IN  /\ words # <<>>
      /\ words[1] = GO
      /\ \/ Len(words) = 1
         \/ words[2] \notin {DEPTH, PERFT}
         \/ Len(words) = 2
         \/ ~IsU8Text(words[3])

\* C25: a malformed go command emits exactly one Error line, no info,
\* bestmove or perft output, and leaves the driver's position unchanged.
C25_MalformedGoRejected ==
  (sent > 0 /\ MalformedGo(command)) =>
    /\ ~crashed
    /\ Len(output) = 1
    /\ output[1].kind = "Error"
    /\ pescado = previous

\* A malformed go command has been sent to a driver whose position is no
\* longer the starting position.
C25_Witness ==
  /\ sent > 1
  /\ MalformedGo(command)
  /\ pescado # State_default

\* ---------------------------------------------------------------------------
\* flip
\* ---------------------------------------------------------------------------

\* The step is the processing of a flip command.
FlipSent == command' = FLIP /\ sent' = sent + 1

\* C26: a flip command changes only side_to_move of the driver's position
\* (board, castling rights, en passant target, half_moves and full_moves stay)
\* and emits nothing; the second of two consecutive flip commands gives back
\* the position the first one was sent to.
C26_FlipOnlySide ==
  [][FlipSent =>
       /\ ~crashed'
       /\ output' = <<>>
       /\ pescado'.side_to_move = opponent(pescado.side_to_move)
       /\ pescado'.board = pescado.board
       /\ pescado'.castling_ability = pescado.castling_ability
       /\ pescado'.en_passant_target = pescado.en_passant_target
       /\ pescado'.half_moves = pescado.half_moves
       /\ pescado'.full_moves = pescado.full_moves
       /\ ((sent > 0 /\ command = FLIP) => pescado' = previous)]_vars

\* Two flip commands have been sent in a row.
C26_Witness ==
  /\ sent = 2
  /\ command = FLIP
  /\ previous.side_to_move = "Black"
  /\ previous.board = State_default.board
  /\ pescado.side_to_move = "White"

(***************************************************************************)
(* State::make_move on its own: any move is handed to a loaded position,   *)
(* listed or not.                                                          *)
(***************************************************************************)

\* State::make_move(lan) on the loaded position.
StateMakeMove ==
  /\ last.op = "load"
  /\ \E lan \in BoardLans :
       \E made \in {State_make_move(state, lan)} :
         /\ state' = made.state
         /\ last' = [op |-> IF made.ok THEN "state" ELSE "state error",
                     lan |-> lan, origin |-> state]
  /\ UNCHANGED <<undoers, saved, driver_vars, fen_vars>>

NextState == StateMakeMove

SpecState == Init /\ [][NextState]_vars

\* C29: when State::make_move returns an error (the source square is empty,
\* or the move carries a promotion and moves a knight, a bishop, a rook or a
\* queen), the State is exactly the State before the call: side_to_move,
\* castling_ability, en_passant_target, half_moves, full_moves and the board.
C29_ErrorKeepsState ==
  last.op = "state error" => state = last.origin

(***************************************************************************)
(* The position after a search.                                            *)
(***************************************************************************)

\* The latest command was a go depth or a go perft command that came to its
\* end.
GoCompleted ==
  /\ sent > 0
  /\ ~crashed
  /\ command \in { GoDepthCommand(n) : n \in 0 .. MaxDepth }
                   \cup { GoPerftCommand(n) : n \in 0 .. MaxPerft }

\* C30: after a go depth or a go perft command has completed, the driver's
\* position is the position before the command: every move made during the
\* search has been unmade.
C30_GoRestoresPosition == GoCompleted => pescado = previous

(***************************************************************************)
(* The search on its own: go depth commands to a driver that holds a small *)
(* position, as a position fen command leaves it.                          *)
(***************************************************************************)
MaxSearchDepth == 3
MaxSearchCommands == 1

SearchFens ==
  <<
   \* White mates in one by promoting to a rook or a queen
   \*   k7/2P5/1K6/8/8/8/8/8 w - - 0 1
   << <<"k", "7", "/", "2", "P", "5", "/", "1", "K", "6", "/", "8", "/", "8", "/", "8", "/", "8", "/", "8">>,
      <<"w">>,
      <<"-">>,
      <<"-">>,
      <<"0">>,
      <<"1">> >>,
   \* Black has one move and is mated after it
   \*   k7/8/1K6/8/8/8/8/7R b - - 0 1
   << <<"k", "7", "/", "8", "/", "1", "K", "6", "/", "8", "/", "8", "/", "8", "/", "8", "/", "7", "R">>,
      <<"b">>,
      <<"-">>,
      <<"-">>,
      <<"0">>,
      <<"1">> >>,
   \* Black mates in one by promoting
   \*   8/8/8/8/8/1k6/2p5/K7 b - - 0 1
   << <<"8", "/", "8", "/", "8", "/", "8", "/", "8", "/", "1", "k", "6", "/", "2", "p", "5", "/", "K", "7">>,
      <<"b">>,
      <<"-">>,
      <<"-">>,
      <<"0">>,
      <<"1">> >>,
   \* White has one move and is mated after it
   \*   K7/8/1k6/8/8/8/8/7r w - - 0 1
   << <<"K", "7", "/", "8", "/", "1", "k", "6", "/", "8", "/", "8", "/", "8", "/", "8", "/", "7", "r">>,
      <<"w">>,
      <<"-">>,
      <<"-">>,
      <<"0">>,
      <<"1">> >>,
   \* a king move of White stalemates Black
   \*   k7/P7/1K6/8/8/8/8/8 w - - 0 1
   << <<"k", "7", "/", "P", "7", "/", "1", "K", "6", "/", "8", "/", "8", "/", "8", "/", "8", "/", "8">>,
      <<"w">>,
      <<"-">>,
      <<"-">>,
      <<"0">>,
      <<"1">> >>,
   \* White can take a pawn that is about to promote
   \*   8/8/8/8/8/8/1p6/K6k w - - 0 1
   << <<"8", "/", "8", "/", "8", "/", "8", "/", "8", "/", "8", "/", "1", "p", "6", "/", "K", "6", "k">>,
      <<"w">>,
      <<"-">>,
      <<"-">>,
      <<"0">>,
      <<"1">> >>,
   \* White is in check by a pawn
   \*   8/8/8/8/8/k7/1p6/K7 w - - 0 1
   << <<"8", "/", "8", "/", "8", "/", "8", "/", "8", "/", "k", "7", "/", "1", "p", "6", "/", "K", "7">>,
      <<"w">>,
      <<"-">>,
      <<"-">>,
      <<"0">>,
      <<"1">> >>,
   \* a pawn each, the Black one blocked by its king
   \*   8/8/8/8/8/8/p6P/k6K w - - 0 1
   << <<"8", "/", "8", "/", "8", "/", "8", "/", "8", "/", "8", "/", "p", "6", "P", "/", "k", "6", "K">>,
      <<"w">>,
      <<"-">>,
      <<"-">>,
      <<"0">>,
      <<"1">> >>,
   \* a double push of White allows a capture en passant
   \*   8/8/8/8/1p6/8/P7/K6k w - - 0 1
   << <<"8", "/", "8", "/", "8", "/", "8", "/", "1", "p", "6", "/", "8", "/", "P", "7", "/", "K", "6", "k">>,
      <<"w">>,
      <<"-">>,
      <<"-">>,
      <<"0">>,
      <<"1">> >>,
   \* Black is stalemated
   \*   7k/7P/7K/8/8/8/8/8 b - - 0 1
   << <<"7", "k", "/", "7", "P", "/", "7", "K", "/", "8", "/", "8", "/", "8", "/", "8", "/", "8">>,
      <<"b">>,
      <<"-">>,
      <<"-">>,
      <<"0">>,
      <<"1">> >>,
   \* White promotes
   \*   7k/P7/8/8/8/8/8/K7 w - - 0 1
   << <<"7", "k", "/", "P", "7", "/", "8", "/", "8", "/", "8", "/", "8", "/", "8", "/", "K", "7">>,
      <<"w">>,
      <<"-">>,
      <<"-">>,
      <<"0">>,
      <<"1">> >>,
   \* the two kings alone
   \*   k7/8/8/8/8/8/8/K7 w - - 0 1
   << <<"k", "7", "/", "8", "/", "8", "/", "8", "/", "8", "/", "8", "/", "8", "/", "K", "7">>,
      <<"w">>,
      <<"-">>,
      <<"-">>,
      <<"0">>,
      <<"1">> >>,
   \* Black is checkmated
   \*   7k/6Q1/6K1/8/8/8/8/8 b - - 0 1
   << <<"7", "k", "/", "6", "Q", "1", "/", "6", "K", "1", "/", "8", "/", "8", "/", "8", "/", "8", "/", "8">>,
      <<"b">>,
      <<"-">>,
      <<"-">>,
      <<"0">>,
      <<"1">> >>,
   \* a pawn each, Black to move
   \*   8/8/8/8/8/8/p6P/k6K b - - 0 1
   << <<"8", "/", "8", "/", "8", "/", "8", "/", "8", "/", "8", "/", "p", "6", "P", "/", "k", "6", "K">>,
      <<"b">>,
      <<"-">>,
      <<"-">>,
      <<"0">>,
      <<"1">> >>
  >>

\* Pescado after `position fen <fen>` for a fen of SearchFens, in either build.
InitSearch ==
  \E i \in 1 .. Len(SearchFens) :
    \E parsed \in {Fen_try_from(SearchFens[i])} :
      /\ parsed.outcome = "Ok"
      /\ pescado = State_from(parsed.fen)
      /\ output = <<>>
      /\ command = <<>>
      /\ previous = pescado
      /\ crashed = FALSE
      /\ overflow_checks \in BOOLEAN
      /\ sent = 0
      /\ CoreIdle
      /\ FenIdle

\* Pescado::send("go depth <n>").
SendGoDepth ==
  /\ ~crashed
  /\ sent < MaxSearchCommands
  /\ \E n \in 0 .. MaxSearchDepth :
       \E result \in {send(pescado, GoDepthCommand(n), overflow_checks)} :
         /\ pescado' = result.state
         /\ output' = result.output
         /\ crashed' = result.panic
         /\ command' = GoDepthCommand(n)
         /\ previous' = pescado
         /\ sent' = sent + 1
  /\ UNCHANGED <<overflow_checks, state, undoers, saved, last, fen_vars>>

NextSearch == SendGoDepth

SpecSearch == InitSearch /\ [][NextSearch]_vars

\* The latest command was `go depth n`.
GoDepthSent(n) == sent > 0 /\ command = GoDepthCommand(n)

\* The info lines among the lines handed to the callback; they come first.
InfoLines == {i \in 1 .. Len(output) : output[i].kind = "info"}

\* The line Pescado::go_depth hands to iteration i: none to the first, the
\* principal variation of iteration i - 1 to the others.
HintOf(i) == IF i = 1 THEN NoLine ELSE SomeLine(output[i - 1].info.pv)

\* Engine::minimax as iteration i of the latest go depth command calls it.
RootOf(i) ==
  minimax(previous, i, 0, HintOf(i), I16_MIN, I16_MAX,
          Strategy_from(previous.side_to_move), overflow_checks)

\* C22: when the evaluation of the root is Winner(side), the reported score
\* is Mate(m) with |m| = ceil(k / 2) for the k moves of the reported principal
\* variation, m > 0 when the side to move at the root is the winner and m < 0
\* when it is the loser; for every other evaluation the score is Cp of the
\* evaluation's integer value.
C22_ScoreOfRoot ==
  \A i \in InfoLines :
    \A root \in {RootOf(i)} :
      LET score == output[i].info.score
          k == Len(output[i].info.pv)
      IN  IF root.evaluation.tag = "Winner"
          THEN /\ score.tag = "mate"
               /\ abs(score.value) = (k + 1) \div 2
               /\ (previous.side_to_move = root.evaluation.side) => score.value > 0
               /\ (previous.side_to_move # root.evaluation.side) => score.value < 0
          ELSE score = Cp(i16_from(root.evaluation))

\* The second iteration has found that the side to move is mated after its
\* move.
C22_Witness ==
  /\ GoDepthSent(2)
  /\ 2 \in InfoLines
  /\ output[2].info.score = Mate(0 - 1)
  /\ Len(output[2].info.pv) = 2

\* The greatest and the least of a non-empty set of integers.
MaxOf(values) == CHOOSE v \in values : \A w \in values : w <= v
MinOf(values) == CHOOSE v \in values : \A w \in values : v <= w
\* White takes the greatest value, Black the least.
BestFor(color, values) == IF color = "White" THEN MaxOf(values) ELSE MinOf(values)

\* The search without a window, as integer values: every listed move of a
\* node is searched and no loop ends early.  At depth 0 a side in check
\* tries every move; a side not in check may stand pat on the static score
\* or take something.
RECURSIVE PlainQuiescence(_)
RECURSIVE PlainMinimax(_, _)
PlainQuiescence(given) ==
  LET mover == given.side_to_move
      after(lan) == State_make_move(given, lan).state
      valued(analysis) ==
        IF analysis.king_safety = "Checkmate" THEN i16_from(Winner(opponent(mover)))
        ELSE IF analysis.king_safety = "Stalemate" THEN i16_from(Draw)
        ELSE IF analysis.king_safety = "Check"
        THEN BestFor(mover, {PlainQuiescence(after(lan)) :
                               lan \in Range(listed_moves(analysis))})
        ELSE BestFor(mover,
                     {i16_from(evaluate(given).evaluation)} \cup
                     {PlainQuiescence(after(lan)) :
                        lan \in {c \in Range(listed_moves(analysis)) :
                                   given.board[c.end] # None}})
  IN  valued(analyze(given, mover))

PlainMinimax(given, depth) ==
  LET mover == given.side_to_move
      after(lan) == State_make_move(given, lan).state
      valued(analysis) ==
        IF analysis.king_safety = "Checkmate" THEN i16_from(Winner(opponent(mover)))
        ELSE IF analysis.king_safety = "Stalemate" THEN i16_from(Draw)
        ELSE BestFor(mover, {PlainMinimax(after(lan), depth - 1) :
                               lan \in Range(listed_moves(analysis))})
  IN  IF depth = 0 THEN PlainQuiescence(given) ELSE valued(analyze(given, mover))

\* The lines tried as the hint of iteration i: none, the principal variation
\* of every iteration of the latest command, and a line of one move for the
\* first and for the last listed move of the position.
HintsTried(listed) ==
  {NoLine} \cup {SomeLine(output[j].info.pv) : j \in InfoLines}
    \cup {SomeLine(<<listed[j]>>) : j \in {1, Len(listed)}}

C28_HintIndexIsPly ==
  \A n \in 2 .. MaxSearchDepth :
    GoDepthSent(n) =>
      \A i \in 2 .. n :
        (i - 1) \in InfoLines =>
          \A k \in 0 .. i - 1 : hint_index(HintOf(i), i - k) = k

====
